---- MODULE Spec2Model ----
(***************************************************************************)
(* Fork lifecycle manager of the EVM debugging service: the port registry  *)
(* (fork/db Repository over the memdb rows of fork/dbRepo), the anvil      *)
(* process supervisor and the fork Service that composes them.             *)
(*                                                                         *)
(* Every inbound HTTP request and every lease goroutine is a thread whose  *)
(* position is a pc.  A step is one access to shared state: one read of a  *)
(* row, one field store of UpdatePort, one access to portToCmdMap.  Only   *)
(* FindAndReservePort takes Repository.mutex; memdb serialises write       *)
(* transactions (Txn(true) .. Commit) but not readers, and UpdatePort      *)
(* stores into the row object in place, so a reader can see a row between  *)
(* the store to Active and the store to ForkId.                            *)
(***************************************************************************)
EXTENDS Integers, FiniteSets, Sequences, TLC

\* ---------------------------------------------------------------- bounds
NumPorts   == 1    \* size of the PORTS pool
MaxCalls   == 3    \* client calls (create_fork, delete_fork, forward_rpc) over the run

Ports     == 1..NumPorts
Creators  == 1..MaxCalls
\* DeleteFork executions: d in Creators is the lease goroutine of create d,
\* the others are DELETE /fork/:forkId requests.
\* The n-th DELETE or rpc request is DeleteFork execution MaxCalls + n or
\* ForwardRpcRequest execution n.
Requests  == 1..MaxCalls
Deleters  == 1..(MaxCalls + MaxCalls)
RpcCalls  == Requests

IsLease(d) == d <= MaxCalls

UnknownId == 0     \* a fork id that no row ever carried
NoPort    == 0     \* Go zero value of the int port
NoCmd     == 0     \* missing key of portToCmdMap (nil *exec.Cmd)
NoThread  == <<>>

VARIABLES
  rows,          \* memdb table "port": port number -> [active, forkId]
  mutex,         \* holder of fork/db Repository.mutex
  writer,        \* holder of the memdb write transaction
  portToCmdMap,  \* anvil Service.portToCmdMap: port -> process (by creator) or NoCmd
  live,          \* child processes started and not killed
  nextId,        \* the next value uuid.New() hands out
  cr,            \* CreateFork executions
  dl,            \* DeleteFork executions
  rpc,           \* ForwardRpcRequest executions
  crashed,       \* the service process died (panic outside a request handler)
  callBudget     \* client calls the run is cut off after

\* The debug service (package debug) runs on top of the fork service.  Its
\* request orchestration and its struct-log walk are modelled by
\* specifications of their own (DebugSpec, WalkSpec) over these variables,
\* which the fork-manager specification leaves at their initial values.
VARIABLES
  calls,           \* debug service: stack of running functions, innermost first
  sent,            \* debug service: externally visible steps so far, in order
  nextFork,        \* debug service: the id the next forkService.CreateFork returns
  reqs,            \* debug service: requests that have arrived
  answered,        \* debug service: outcomes of finished requests
  structLogs,      \* walk: debugTrace.StructLogs
  contractMap,     \* walk: depth -> ContractEntry
  logIndex,        \* walk: struct-logs consumed by the range loop
  filteredOpcodes, \* walk: the CallTrace entries emitted so far
  emittedAt,       \* walk: for each emitted entry, the index of its struct-log
  walkResult       \* walk: "walking", or how DebugTransaction ended

\* The pure helpers and side services of the back end (PC lookup, source-map
\* decompression, balance override, explorer client, source cache, call-trace
\* flattening) are exercised by specifications of their own over these
\* variables.
VARIABLES
  pcBytecode,      \* getOpcodeNumber: the contractBytecode argument
  pcTarget,        \* getOpcodeNumber: the opcodePC argument
  pcResult         \* getOpcodeNumber: <<>> until called, then <<[err, n]>>

VARIABLES
  compressed,      \* decompressSourceMap: the compressed srcmap string
  decompressed,    \* <<>> until decompressSourceMap returned, then <<its result>>
  redecompressed   \* <<>>, or <<result of decompressing the re-serialised list>>

VARIABLES
  ercPc,           \* SetERC20Balance: the call it is about to make, or "off"/"done"
  slotNumber,      \* SetERC20Balance: the loop variable
  balanceSlot,     \* SetERC20Balance: <<>> or <<the preimage getSlot hashed>>
  written,         \* the fork: <<>> or <<the preimage whose slot holds balance>>
  tokenSlot,       \* the token: mapping slot of its balances, -1 if not a plain mapping
  original,        \* the token: balanceOf(user) before any write
  currBalance,     \* SetERC20Balance: the last balanceOf read back, "" if none
  ercResult,       \* SetERC20Balance: "running", "nil" or the error returned
  zeroPads         \* the build: fmt pads a %064s string with zeros (or blanks)

VARIABLES
  explorerFn,      \* explorer client: "GetSourceCodeInfo" or "GetAbi", "" if idle
  explorerPc,      \* explorer client: "request", "sleep" or "done"
  limited,         \* the explorer: requests it will still rate-limit, -1: all
  attempts,        \* explorer client: HTTP requests made by the call
  lastOutcome,     \* explorer client: what the last getSourceCodeInfo/getAbi gave
  explorerResult   \* explorer client: "running", or what the call returned

VARIABLES
  disk,            \* source cache: the files kept for the address under output/
  solcRuns,        \* source cache: invocations of the compiler so far
  sourceCalls,     \* source cache: calls of the two lookups so far
  lastCall         \* source cache: the last call, its explorer lookup and result

VARIABLES
  callTree,        \* call trace: the result of the callTracer, a tree of calls
  traceUse,        \* call trace: the function that asked for it
  tracePc,         \* call trace: "flatten", "loop", "lookup", "done" or "aborted"
  flatTraces,      \* call trace: what GetTransactionTrace returned
  traceIndex,      \* call trace: entries consumed by the range loop over it
  contractsCalled, \* GetContractsCalled: the list built so far
  abiOutcomes,     \* GetContractsCalled: how ABI decoding went for each entry
  depthMap,        \* DebugTransaction: the contractMap built so far
  lastUse          \* DebugTransaction: <<>> or <<the last struct-log lookup>>

VARIABLES
  receipt,         \* revert reason: the eth_getTransactionReceipt outcome
  reasonPc,        \* revert reason: "receipt", "message", "done" or "off"
  revertReason,    \* revert reason: <<>> or <<what GetTransactionErrorMessage gave>>
  errorMessage     \* revert reason: <<>> or <<the message DebugTransaction reports>>

reasonVars == <<receipt, reasonPc, revertReason, errorMessage>>
pcVars == <<pcBytecode, pcTarget, pcResult>>
traceVars == <<callTree, traceUse, tracePc, flatTraces, traceIndex,
               contractsCalled, abiOutcomes, depthMap, lastUse>>
cacheVars == <<disk, solcRuns, sourceCalls, lastCall>>
explorerVars == <<explorerFn, explorerPc, limited, attempts, lastOutcome,
                  explorerResult>>
srcmapVars == <<compressed, decompressed, redecompressed>>
balanceVars == <<ercPc, slotNumber, balanceSlot, written, tokenSlot, original,
                 currBalance, ercResult, zeroPads>>
helperVars == <<pcVars, srcmapVars, balanceVars, explorerVars, cacheVars,
                traceVars, reasonVars>>

forkVars  == <<rows, mutex, writer, portToCmdMap, live, nextId, cr, dl, rpc, crashed,
              callBudget>>
debugVars == <<calls, sent, nextFork, reqs, answered>>
walkVars  == <<structLogs, contractMap, logIndex, filteredOpcodes, emittedAt, walkResult>>

vars == <<rows, mutex, writer, portToCmdMap, live, nextId, cr, dl, rpc, crashed,
          callBudget,
          debugVars, walkVars, helperVars>>

\* The debug service has received no request.
DebugOff ==
  /\ calls = <<>>
  /\ sent = <<>>
  /\ nextFork = 0
  /\ reqs = 0
  /\ answered = <<>>

\* No struct-log walk is under way.
WalkOff ==
  /\ structLogs = <<>>
  /\ contractMap = <<>>
  /\ logIndex = 0
  /\ filteredOpcodes = <<>>
  /\ emittedAt = <<>>
  /\ walkResult = "off"

\* getOpcodeNumber has not been called.
PcOff ==
  /\ pcBytecode = <<>>
  /\ pcTarget = 0
  /\ pcResult = <<>>

\* decompressSourceMap has not been called.
SrcmapOff ==
  /\ compressed = <<>>
  /\ decompressed = <<>>
  /\ redecompressed = <<>>

\* SetERC20Balance has not been called.
BalanceOff ==
  /\ ercPc = "off"
  /\ slotNumber = 0
  /\ balanceSlot = <<>>
  /\ written = <<>>
  /\ tokenSlot = -1
  /\ original = ""
  /\ currBalance = ""
  /\ ercResult = "off"
  /\ zeroPads = TRUE

\* The explorer client has not been called.
ExplorerOff ==
  /\ explorerFn = ""
  /\ explorerPc = "off"
  /\ limited = 0
  /\ attempts = 0
  /\ lastOutcome = ""
  /\ explorerResult = "off"

\* The source cache is empty and untouched.
CacheOff ==
  /\ disk = <<>>
  /\ solcRuns = 0
  /\ sourceCalls = 0
  /\ lastCall = <<>>

\* No call trace has been asked for.
TraceOff ==
  /\ callTree = <<>>
  /\ traceUse = ""
  /\ tracePc = "off"
  /\ flatTraces = <<>>
  /\ traceIndex = 0
  /\ contractsCalled = <<>>
  /\ abiOutcomes = <<>>
  /\ depthMap = <<>>
  /\ lastUse = <<>>

\* GetTransactionErrorMessage has not been called.
ReasonOff ==
  /\ receipt = <<>>
  /\ reasonPc = "off"
  /\ revertReason = <<>>
  /\ errorMessage = <<>>

\* None of the helper specifications is running.
HelpersOff ==
  /\ PcOff
  /\ SrcmapOff
  /\ BalanceOff
  /\ ExplorerOff
  /\ CacheOff
  /\ TraceOff
  /\ ReasonOff

\* ------------------------------------------------------- dbRepo helpers

\* uuid.New().String(): a value never produced before.
NewUuid(n) == n

\* Mutant of RowIsFree: the test is inverted.
RowIsFree_Inverted(row) == row.active

\* FindInactivePort's test on the row the iterator is at.
RowIsFree(row) == ~row.active

\* Mutant of FindPortByForkId: the fork id is not compared.
FindPortByForkId_AnyRow(rws, f) == CHOOSE p \in Ports : TRUE

\* FindPortByForkId: the port of the row whose ForkId equals f, or NoPort
\* with the "port doesn't exist" error.
FindPortByForkId(rws, f) ==
  IF \E p \in Ports : rws[p].forkId = f
    THEN CHOOSE p \in Ports : rws[p].forkId = f
    ELSE NoPort

\* FindPortStatusByForkId: "missing" stands for its error return.
FindPortStatusByForkId(rws, f) ==
  IF \E p \in Ports : rws[p].forkId = f
    THEN IF rws[CHOOSE p \in Ports : rws[p].forkId = f].active
           THEN "active" ELSE "inactive"
    ELSE "missing"

\* UpdatePort, first store: port.Active = active
StoreActive(rws, p, a) == [rws EXCEPT ![p].active = a]

\* UpdatePort, second store: port.ForkId = forkId
StoreForkId(rws, p, f) == [rws EXCEPT ![p].forkId = f]

\* The ports whose row is not active.
FreePorts(rws) == {p \in Ports : ~rws[p].active}

\* ----------------------------------------------------------------- Init

\* main: AllocatePorts inserts every port inactive with a fresh placeholder.
AllocatePorts == [p \in Ports |-> [active |-> FALSE, forkId |-> NewUuid(p)]]

CrInit == [pc |-> "idle", i |-> 0, port |-> NoPort, forkId |-> UnknownId,
           relPort |-> NoPort, result |-> "none", freeAtLock |-> {}]

DlInit == [pc |-> "idle", forkId |-> UnknownId, port |-> NoPort,
           relPort |-> NoPort, result |-> "none", killed |-> NoCmd,
           activeAtCall |-> FALSE]

RpcInit == [pc |-> "idle", forkId |-> UnknownId, port |-> NoPort,
            result |-> "none", sentTo |-> NoCmd, statusSeen |-> "none"]

\* The fork manager after main has built it and allocated the pool.
ForkStart ==
  /\ rows = AllocatePorts
  /\ mutex = NoThread
  /\ writer = NoThread
  /\ portToCmdMap = [p \in Ports |-> NoCmd]
  /\ live = {}
  /\ nextId = NumPorts + 1
  /\ cr = [k \in Creators |-> CrInit]
  /\ dl = [d \in Deleters |-> DlInit]
  /\ rpc = [r \in RpcCalls |-> RpcInit]
  /\ crashed = FALSE

\* The fork manager at start, under the call budget of the specifications
\* other than PoolSpec.
ForkIdle ==
  /\ ForkStart
  /\ callBudget = MaxCalls

Init ==
  /\ HelpersOff
  /\ ForkIdle
  /\ DebugOff
  /\ WalkOff

\* Fork ids handed to a caller by a successful CreateFork.
ReturnedIds == {cr[k].forkId : k \in {j \in Creators : cr[j].result = "ok"}}

\* Ids a client can name: the ones it was given, or one that never existed.
ClientIds == ReturnedIds \cup {UnknownId}


Me(kind, n) == <<kind, n>>

\* DELETE and rpc requests that have arrived so far.
RequestsStarted ==
  Cardinality({n \in Requests : dl[MaxCalls + n].pc # "idle" \/ rpc[n].pc # "idle"})

\* Client calls that have arrived so far.
CallsStarted ==
  Cardinality({k \in Creators : cr[k].pc # "idle"}) + RequestsStarted

\* ------------------------------------------------------------ CreateFork

\* A create_fork request arrives; FindAndReservePort: repo.mutex.Lock().
\* freeAtLock remembers the rows that were not active at that moment.
FindAndReservePort_Lock(k) ==
  /\ ~crashed
  /\ cr[k].pc = "idle"
  /\ IF k = 1 THEN TRUE ELSE cr[k - 1].pc # "idle"
  /\ CallsStarted < callBudget
  /\ mutex = NoThread
  /\ mutex' = Me("create", k)
  /\ cr' = [cr EXCEPT ![k].pc = "scan", ![k].i = 1,
                      ![k].freeAtLock = FreePorts(rows)]
  /\ UNCHANGED <<callBudget, debugVars, walkVars, helperVars, rows, writer, portToCmdMap, live, nextId, dl, rpc, crashed>>

\* FindInactivePort: one it.Next() over the "id" index (ascending port
\* number); the first row that is not active is returned, the end of the
\* table is the "no available port" error, which FindAndReservePort and
\* CreateFork return at once (the deferred Unlock runs).
FindInactivePort(k) ==
  /\ ~crashed
  /\ cr[k].pc = "scan"
  /\ LET i == cr[k].i IN
       IF RowIsFree(rows[i])
         THEN /\ cr' = [cr EXCEPT ![k].pc = "upd1", ![k].port = i, ![k].i = 0]
              /\ UNCHANGED mutex
         ELSE IF i = NumPorts
           THEN /\ cr' = [cr EXCEPT ![k].pc = "done", ![k].result = "NoPort", ![k].i = 0]
                /\ mutex' = NoThread
           ELSE /\ cr' = [cr EXCEPT ![k].i = i + 1]
                /\ UNCHANGED mutex
  /\ UNCHANGED <<callBudget, debugVars, walkVars, helperVars, rows, writer, portToCmdMap, live, nextId, dl, rpc, crashed>>

\* Mutant of Reserve_StoreActive: no new uuid, the row keeps its fork id.
Reserve_StoreActive_KeepId(k) ==
  /\ ~crashed
  /\ cr[k].pc = "upd1"
  /\ writer = NoThread
  /\ writer' = Me("create", k)
  /\ rows' = StoreActive(rows, cr[k].port, TRUE)
  /\ cr' = [cr EXCEPT ![k].pc = "upd2", ![k].forkId = rows[cr[k].port].forkId]
  /\ UNCHANGED <<callBudget, debugVars, walkVars, helperVars, mutex, portToCmdMap, live, nextId, dl, rpc, crashed>>

\* newForkId := uuid.New(); UpdatePort(port, true, newForkId) opens the
\* write transaction and stores port.Active = true.
Reserve_StoreActive(k) ==
  /\ ~crashed
  /\ cr[k].pc = "upd1"
  /\ writer = NoThread
  /\ writer' = Me("create", k)
  /\ rows' = StoreActive(rows, cr[k].port, TRUE)
  /\ cr' = [cr EXCEPT ![k].pc = "upd2", ![k].forkId = NewUuid(nextId)]
  /\ nextId' = nextId + 1
  /\ UNCHANGED <<callBudget, debugVars, walkVars, helperVars, mutex, portToCmdMap, live, dl, rpc, crashed>>

\* UpdatePort stores port.ForkId = newForkId and commits;
\* FindAndReservePort returns and unlocks.
Reserve_StoreForkId(k) ==
  /\ ~crashed
  /\ cr[k].pc = "upd2"
  /\ rows' = StoreForkId(rows, cr[k].port, cr[k].forkId)
  /\ writer' = NoThread
  /\ mutex' = NoThread
  /\ cr' = [cr EXCEPT ![k].pc = "start"]
  /\ UNCHANGED <<callBudget, debugVars, walkVars, helperVars, portToCmdMap, live, nextId, dl, rpc, crashed>>

\* Mutant of StartAnvilProcess: a failed spawn returns without releasing.
StartAnvilProcess_NoRelease(k) ==
  /\ ~crashed
  /\ cr[k].pc = "start"
  /\ \E ok \in BOOLEAN :
       IF ok
         THEN /\ portToCmdMap' = [portToCmdMap EXCEPT ![cr[k].port] = k]
              /\ live' = live \cup {k}
              /\ dl' = [dl EXCEPT ![k].pc = "sleep", ![k].forkId = cr[k].forkId]
              /\ cr' = [cr EXCEPT ![k].pc = "done", ![k].result = "ok"]
         ELSE /\ cr' = [cr EXCEPT ![k].pc = "done", ![k].result = "SpawnErr"]
              /\ UNCHANGED <<portToCmdMap, live, dl>>
  /\ UNCHANGED <<callBudget, debugVars, walkVars, helperVars, rows, mutex, writer, nextId, rpc, crashed>>

\* StartAnvilProcess: cmd.Start() succeeds or fails.  On success the handle
\* is stored under the port, the lease goroutine is started (it sleeps) and
\* CreateFork returns the fork id.  On failure CreateFork goes on to
\* ReleasePortWithForkId.
StartAnvilProcess(k) ==
  /\ ~crashed
  /\ cr[k].pc = "start"
  /\ \E ok \in BOOLEAN :
       IF ok
         THEN /\ portToCmdMap' = [portToCmdMap EXCEPT ![cr[k].port] = k]
              /\ live' = live \cup {k}
              /\ dl' = [dl EXCEPT ![k].pc = "sleep", ![k].forkId = cr[k].forkId]
              /\ cr' = [cr EXCEPT ![k].pc = "done", ![k].result = "ok"]
         ELSE /\ cr' = [cr EXCEPT ![k].pc = "rel_find"]
              /\ UNCHANGED <<portToCmdMap, live, dl>>
  /\ UNCHANGED <<callBudget, debugVars, walkVars, helperVars, rows, mutex, writer, nextId, rpc, crashed>>

\* ReleasePortWithForkId on the spawn-failure path: FindPortByForkId.  When
\* the row is gone CreateFork returns the spawn error wrapped with the
\* release error.
CreateRelease_Find(k) ==
  /\ ~crashed
  /\ cr[k].pc = "rel_find"
  /\ LET p == FindPortByForkId(rows, cr[k].forkId) IN
       IF p = NoPort
         THEN cr' = [cr EXCEPT ![k].pc = "done", ![k].result = "SpawnErrWrapped"]
         ELSE cr' = [cr EXCEPT ![k].pc = "rel_upd1", ![k].relPort = p]
  /\ UNCHANGED <<callBudget, debugVars, walkVars, helperVars, rows, mutex, writer, portToCmdMap, live, nextId, dl, rpc, crashed>>

\* UpdatePort(port, false, forkId): port.Active = false
CreateRelease_StoreActive(k) ==
  /\ ~crashed
  /\ cr[k].pc = "rel_upd1"
  /\ writer = NoThread
  /\ writer' = Me("create", k)
  /\ rows' = StoreActive(rows, cr[k].relPort, FALSE)
  /\ cr' = [cr EXCEPT ![k].pc = "rel_upd2"]
  /\ UNCHANGED <<callBudget, debugVars, walkVars, helperVars, mutex, portToCmdMap, live, nextId, dl, rpc, crashed>>

\* UpdatePort: port.ForkId = forkId, commit; CreateFork returns the spawn error.
CreateRelease_StoreForkId(k) ==
  /\ ~crashed
  /\ cr[k].pc = "rel_upd2"
  /\ rows' = StoreForkId(rows, cr[k].relPort, cr[k].forkId)
  /\ writer' = NoThread
  /\ cr' = [cr EXCEPT ![k].pc = "done", ![k].result = "SpawnErr",
                      ![k].relPort = NoPort]
  /\ UNCHANGED <<callBudget, debugVars, walkVars, helperVars, mutex, portToCmdMap, live, nextId, dl, rpc, crashed>>

\* ------------------------------------------------------------ DeleteFork

\* A DeleteFork execution starts: the lease goroutine wakes from time.Sleep,
\* or a DELETE request arrives with a fork id.  GetPortWithForkId resolves
\* the port; its error is returned.  activeAtCall remembers whether the fork
\* was active when the call began.
DeleteFork_GetPort(d) ==
  /\ ~crashed
  /\ IF IsLease(d)
       THEN dl[d].pc = "sleep"
       ELSE /\ dl[d].pc = "idle"
            /\ d = MaxCalls + RequestsStarted + 1
            /\ CallsStarted < callBudget
  /\ \E f \in (IF IsLease(d) THEN {dl[d].forkId} ELSE ClientIds) :
       LET p == FindPortByForkId(rows, f)
           a == FindPortStatusByForkId(rows, f) = "active"
       IN IF p = NoPort
            THEN dl' = [dl EXCEPT ![d].pc = "done", ![d].forkId = f,
                                  ![d].result = "NotFound", ![d].activeAtCall = a]
            ELSE dl' = [dl EXCEPT ![d].pc = "isactive", ![d].forkId = f,
                                  ![d].port = p, ![d].activeAtCall = a]
  /\ UNCHANGED <<callBudget, debugVars, walkVars, helperVars, rows, mutex, writer, portToCmdMap, live, nextId, cr, rpc, crashed>>

\* IsPortActive, then the !portStatus test.
DeleteFork_IsPortActive(d) ==
  /\ ~crashed
  /\ dl[d].pc = "isactive"
  /\ LET st == FindPortStatusByForkId(rows, dl[d].forkId) IN
       dl' = [dl EXCEPT
                ![d].pc = IF st = "active" THEN "stop" ELSE "done",
                ![d].port = IF st = "active" THEN @ ELSE NoPort,
                ![d].result = IF st = "active" THEN "none"
                              ELSE IF st = "inactive" THEN "NotActive"
                              ELSE "NotFound"]
  /\ UNCHANGED <<callBudget, debugVars, walkVars, helperVars, rows, mutex, writer, portToCmdMap, live, nextId, cr, rpc, crashed>>

\* StopAnvilProcess: cmd := portToCmdMap[port]; cmd.Process.Kill().  A
\* missing key gives a nil cmd and the dereference panics: net/http recovers
\* the panic of a request handler, the panic of the lease goroutine ends the
\* service.  Kill of a started, never waited-for child succeeds.
StopAnvilProcess_Kill(d) ==
  /\ ~crashed
  /\ dl[d].pc = "stop"
  /\ LET cmd == portToCmdMap[dl[d].port] IN
       IF cmd = NoCmd
         THEN /\ dl' = [dl EXCEPT ![d].pc = "done", ![d].result = "panic",
                                   ![d].port = NoPort]
              /\ crashed' = IsLease(d)
              /\ UNCHANGED live
         ELSE /\ dl' = [dl EXCEPT ![d].pc = "stopdel", ![d].killed = cmd]
              /\ live' = live \ {cmd}
              /\ UNCHANGED crashed
  /\ UNCHANGED <<callBudget, debugVars, walkVars, helperVars, rows, mutex, writer, portToCmdMap, nextId, cr, rpc>>

\* StopAnvilProcess: delete(portToCmdMap, port)
StopAnvilProcess_Delete(d) ==
  /\ ~crashed
  /\ dl[d].pc = "stopdel"
  /\ portToCmdMap' = [portToCmdMap EXCEPT ![dl[d].port] = NoCmd]
  /\ dl' = [dl EXCEPT ![d].pc = "rel_find", ![d].port = NoPort]
  /\ UNCHANGED <<callBudget, debugVars, walkVars, helperVars, rows, mutex, writer, live, nextId, cr, rpc, crashed>>

\* ReleasePortWithForkId: FindPortByForkId
DeleteRelease_Find(d) ==
  /\ ~crashed
  /\ dl[d].pc = "rel_find"
  /\ LET p == FindPortByForkId(rows, dl[d].forkId) IN
       IF p = NoPort
         THEN dl' = [dl EXCEPT ![d].pc = "done", ![d].result = "NotFound"]
         ELSE dl' = [dl EXCEPT ![d].pc = "rel_upd1", ![d].relPort = p]
  /\ UNCHANGED <<callBudget, debugVars, walkVars, helperVars, rows, mutex, writer, portToCmdMap, live, nextId, cr, rpc, crashed>>

\* Mutant of DeleteRelease_StoreActive: the row is left active.
DeleteRelease_StoreActive_Keep(d) ==
  /\ ~crashed
  /\ dl[d].pc = "rel_upd1"
  /\ writer = NoThread
  /\ writer' = Me("delete", d)
  /\ rows' = StoreActive(rows, dl[d].relPort, TRUE)
  /\ dl' = [dl EXCEPT ![d].pc = "rel_upd2"]
  /\ UNCHANGED <<callBudget, debugVars, walkVars, helperVars, mutex, portToCmdMap, live, nextId, cr, rpc, crashed>>

\* ReleasePortWithForkId: UpdatePort(port, false, forkId), port.Active = false
DeleteRelease_StoreActive(d) ==
  /\ ~crashed
  /\ dl[d].pc = "rel_upd1"
  /\ writer = NoThread
  /\ writer' = Me("delete", d)
  /\ rows' = StoreActive(rows, dl[d].relPort, FALSE)
  /\ dl' = [dl EXCEPT ![d].pc = "rel_upd2"]
  /\ UNCHANGED <<callBudget, debugVars, walkVars, helperVars, mutex, portToCmdMap, live, nextId, cr, rpc, crashed>>

\* UpdatePort: port.ForkId = forkId, commit; DeleteFork returns nil.
DeleteRelease_StoreForkId(d) ==
  /\ ~crashed
  /\ dl[d].pc = "rel_upd2"
  /\ rows' = StoreForkId(rows, dl[d].relPort, dl[d].forkId)
  /\ writer' = NoThread
  /\ dl' = [dl EXCEPT ![d].pc = "done", ![d].result = "ok"]
  /\ UNCHANGED <<callBudget, debugVars, walkVars, helperVars, mutex, portToCmdMap, live, nextId, cr, rpc, crashed>>

\* ----------------------------------------------------- ForwardRpcRequest

\* A forward_rpc request arrives; GetPortWithForkId.
ForwardRpc_GetPort(r) ==
  /\ ~crashed
  /\ rpc[r].pc = "idle"
  /\ r = RequestsStarted + 1
  /\ CallsStarted < callBudget
  /\ \E f \in ClientIds :
       LET p == FindPortByForkId(rows, f) IN
         IF p = NoPort
           THEN rpc' = [rpc EXCEPT ![r].pc = "done", ![r].forkId = f,
                                   ![r].result = "NotFound"]
           ELSE rpc' = [rpc EXCEPT ![r].pc = "isactive", ![r].forkId = f,
                                   ![r].port = p]
  /\ UNCHANGED <<callBudget, debugVars, walkVars, helperVars, rows, mutex, writer, portToCmdMap, live, nextId, cr, dl, crashed>>

\* Mutant of ForwardRpc_IsPortActive: the !portStatus test is missing.
ForwardRpc_IsPortActive_Unchecked(r) ==
  /\ ~crashed
  /\ rpc[r].pc = "isactive"
  /\ LET st == FindPortStatusByForkId(rows, rpc[r].forkId) IN
       rpc' = [rpc EXCEPT
                 ![r].statusSeen = st,
                 ![r].pc = IF st = "missing" THEN "done" ELSE "post",
                 ![r].port = IF st = "missing" THEN NoPort ELSE @,
                 ![r].result = IF st = "missing" THEN "NotFound" ELSE "none"]
  /\ UNCHANGED <<callBudget, debugVars, walkVars, helperVars, rows, mutex, writer, portToCmdMap, live, nextId, cr, dl, crashed>>

\* IsPortActive, then the !portStatus test ("Fork is inactive: ...").
ForwardRpc_IsPortActive(r) ==
  /\ ~crashed
  /\ rpc[r].pc = "isactive"
  /\ LET st == FindPortStatusByForkId(rows, rpc[r].forkId) IN
       rpc' = [rpc EXCEPT
                 ![r].statusSeen = st,
                 ![r].pc = IF st = "active" THEN "post" ELSE "done",
                 ![r].port = IF st = "active" THEN @ ELSE NoPort,
                 ![r].result = IF st = "active" THEN "none"
                               ELSE IF st = "inactive" THEN "Inactive"
                               ELSE "NotFound"]
  /\ UNCHANGED <<callBudget, debugVars, walkVars, helperVars, rows, mutex, writer, portToCmdMap, live, nextId, cr, dl, crashed>>

\* The child process listening on a port: a live process started on it.
Listening(p) == {k \in live : cr[k].port = p}

\* http.Post to http://0.0.0.0:<port>: the body reaches the process that
\* listens there; with no listener the transport error is returned.
ForwardRpc_Post(r) ==
  /\ ~crashed
  /\ rpc[r].pc = "post"
  /\ IF Listening(rpc[r].port) = {}
       THEN rpc' = [rpc EXCEPT ![r].pc = "done", ![r].result = "TransportErr",
                               ![r].port = NoPort]
       ELSE \E k \in Listening(rpc[r].port) :
              rpc' = [rpc EXCEPT ![r].pc = "done", ![r].result = "ok",
                                 ![r].sentTo = k, ![r].port = NoPort]
  /\ UNCHANGED <<callBudget, debugVars, walkVars, helperVars, rows, mutex, writer, portToCmdMap, live, nextId, cr, dl, crashed>>

\* ---------------------------------------------------- unsynchronised map

\* portToCmdMap is a plain Go map used by every request and lease goroutine
\* without a lock.  When two threads are at an access to it and one of them
\* writes, the runtime may stop the service ("concurrent map writes").
MapReaders == {Me("delete", d) : d \in {e \in Deleters : dl[e].pc = "stop"}}
MapWriters == {Me("delete", d) : d \in {e \in Deleters : dl[e].pc = "stopdel"}}
                \cup {Me("create", k) : k \in {j \in Creators : cr[j].pc = "start"}}

ConcurrentMapAccess ==
  /\ ~crashed
  /\ \E w \in MapWriters : \E t \in MapReaders \cup MapWriters : t # w
  /\ crashed' = TRUE
  /\ UNCHANGED <<callBudget, debugVars, walkVars, helperVars, rows, mutex, writer, portToCmdMap, live, nextId, cr, dl, rpc>>

\* ----------------------------------------------------------------- Next

Next ==
  \/ \E k \in Creators : FindAndReservePort_Lock(k)
  \/ \E k \in Creators : FindInactivePort(k)
  \/ \E k \in Creators : Reserve_StoreActive(k)
  \/ \E k \in Creators : Reserve_StoreForkId(k)
  \/ \E k \in Creators : StartAnvilProcess(k)
  \/ \E k \in Creators : CreateRelease_Find(k)
  \/ \E k \in Creators : CreateRelease_StoreActive(k)
  \/ \E k \in Creators : CreateRelease_StoreForkId(k)
  \/ \E d \in Deleters : DeleteFork_GetPort(d)
  \/ \E d \in Deleters : DeleteFork_IsPortActive(d)
  \/ \E d \in Deleters : StopAnvilProcess_Kill(d)
  \/ \E d \in Deleters : StopAnvilProcess_Delete(d)
  \/ \E d \in Deleters : DeleteRelease_Find(d)
  \/ \E d \in Deleters : DeleteRelease_StoreActive(d)
  \/ \E d \in Deleters : DeleteRelease_StoreForkId(d)
  \/ \E r \in RpcCalls : ForwardRpc_GetPort(r)
  \/ \E r \in RpcCalls : ForwardRpc_IsPortActive(r)
  \/ \E r \in RpcCalls : ForwardRpc_Post(r)
  \/ ConcurrentMapAccess

Spec == Init /\ [][Next]_vars

TypeOK ==
  /\ rows \in [Ports -> [active : BOOLEAN, forkId : Nat]]
  /\ portToCmdMap \in [Ports -> Creators \cup {NoCmd}]
  /\ live \subseteq Creators
  /\ crashed \in BOOLEAN


\* ------------------------------------------------------------ vocabulary

ActiveRows == {p \in Ports : rows[p].active}
Handles    == {p \in Ports : portToCmdMap[p] # NoCmd}

\* No CreateFork or DeleteFork execution is between two of its steps.
Quiescent ==
  /\ \A k \in Creators : cr[k].pc \in {"idle", "done"}
  /\ \A d \in Deleters : dl[d].pc \in {"idle", "sleep", "done"}

\* A DELETE request naming fork id f has arrived.
ExplicitDeleteIssued(f) ==
  \E d \in Deleters : ~IsLease(d) /\ dl[d].pc # "idle" /\ dl[d].forkId = f

\* Executions inside FindAndReservePort or ReleasePortWithForkId.
InsideRegistryOp ==
  {Me("create", k) : k \in {j \in Creators :
       cr[j].pc \in {"scan", "upd1", "upd2", "rel_upd1", "rel_upd2"}}}
    \cup {Me("delete", d) : d \in {e \in Deleters : dl[e].pc \in {"rel_upd1", "rel_upd2"}}}

SpawnErrors == {"SpawnErr", "SpawnErrWrapped"}

\* ---------------------------------------------------------------- claims

\* C1: port exclusivity.  The number of active port rows equals the number
\* of child-process handles the supervisor holds.  The claim asserts it of
\* every reachable state; it is stated here of the states it covers in which
\* no create_fork or delete_fork execution is between two of its steps and
\* the service is up.  (rows is keyed by port, so two active rows never
\* share a port.)
C1_PortExclusivity ==
  (Quiescent /\ ~crashed) => Cardinality(ActiveRows) = Cardinality(Handles)

\* C2: lease expiry.  When the lease goroutine of a successfully created
\* fork, for which no explicit delete_fork was issued, finishes its
\* DeleteFork, the fork is not active and its child process is stopped.
C2_LeaseExpiry ==
  [][\A k \in Creators :
       (dl[k].pc # "done" /\ dl'[k].pc = "done" /\ cr[k].result = "ok"
          /\ ~ExplicitDeleteIssued(cr[k].forkId)')
         => /\ FindPortStatusByForkId(rows', cr[k].forkId) # "active"
            /\ k \notin live']_vars

\* C3: a lease expiring together with an explicit delete_fork of the same
\* fork is benign.  Of two finished DeleteFork executions for one fork,
\* exactly one stopped the child process and released the port, and the
\* other returned the not-active (or not-found) error without stopping a
\* process or panicking.
C3_ConcurrentDeleteBenign ==
  \A d \in Deleters : \A e \in Deleters :
    (d # e /\ dl[d].pc = "done" /\ dl[e].pc = "done"
       /\ dl[d].forkId = dl[e].forkId /\ dl[d].forkId \in ReturnedIds)
      => \/ /\ dl[d].result = "ok" /\ dl[d].killed # NoCmd
            /\ dl[e].result \in {"NotActive", "NotFound"} /\ dl[e].killed = NoCmd
         \/ /\ dl[e].result = "ok" /\ dl[e].killed # NoCmd
            /\ dl[d].result \in {"NotActive", "NotFound"} /\ dl[d].killed = NoCmd

\* C4: every registry operation runs under the one registry mutex, so the
\* steps of two registry operations never interleave: at most one execution
\* is inside a registry operation (between the lookup and the update of a
\* release, or between the lock and the unlock of a reserve).
C4_RegistrySerialized == Cardinality(InsideRegistryOp) <= 1


Min(S) == CHOOSE x \in S : \A y \in S : x <= y

\* C5: port exhaustion fails fast.  create_fork returns the no-port error
\* only if every row was active when reserve took the registry mutex, and a
\* reserve that selects a port selects one whose row is not active at that
\* moment; the failing call has stored nothing in a row, generated no fork
\* id, spawned no process and started no lease goroutine.
C5_PortExhaustionFailsFast ==
  [][\A k \in Creators :
       /\ (cr[k].pc = "scan" /\ cr'[k].result = "NoPort")
            => /\ cr[k].freeAtLock = {}
               /\ cr'[k].forkId = UnknownId /\ cr'[k].port = NoPort
               /\ rows' = rows /\ nextId' = nextId
               /\ portToCmdMap' = portToCmdMap /\ live' = live /\ k \notin live
               /\ dl'[k].pc = "idle"
       /\ (cr[k].pc = "scan" /\ cr'[k].pc = "upd1")
            => cr'[k].port \in FreePorts(rows)]_vars

\* C5 witness: a create_fork has returned the no-port error.
C5_Witness == \E k \in Creators : cr[k].pc = "done" /\ cr[k].result = "NoPort"

C8_DeleteInactiveIsNoop ==
  \A d \in Deleters :
    (dl[d].pc \notin {"idle", "sleep"} /\ ~dl[d].activeAtCall)
      => /\ dl[d].pc \notin {"stopdel", "rel_find", "rel_upd1", "rel_upd2"}
         /\ dl[d].killed = NoCmd
         /\ dl[d].result \notin {"ok", "panic"}

\* C9 as claimed: forward_rpc gives the one ForkInactive error both for a
\* fork id no row carries and for a fork id whose row is inactive, and sends
\* nothing.
C9_SameForkInactiveError ==
  \A r \in RpcCalls :
    (rpc[r].pc = "done" /\ rpc[r].statusSeen # "active")
      => rpc[r].result = "Inactive" /\ rpc[r].sentTo = NoCmd

\* C9 amended: forward_rpc on a fork id no row carries returns the
\* registry's lookup error, on a fork id whose row is inactive it returns
\* the fork-is-inactive error, and in both cases nothing is sent to a child
\* process.
C9_InactiveOrUnknownRejected ==
  \A r \in RpcCalls :
    rpc[r].pc = "done"
      => /\ rpc[r].forkId = UnknownId => rpc[r].result = "NotFound"
         /\ rpc[r].statusSeen = "inactive" => rpc[r].result = "Inactive"
         /\ rpc[r].statusSeen = "missing" => rpc[r].result = "NotFound"
         /\ rpc[r].result \in {"NotFound", "Inactive"} => rpc[r].sentTo = NoCmd

\* C9 witness: forward_rpc on a fork that was created and is inactive again
\* has returned the fork-is-inactive error.
C9_Witness ==
  \E r \in RpcCalls :
    /\ rpc[r].pc = "done" /\ rpc[r].result = "Inactive"
    /\ rpc[r].forkId \in ReturnedIds

MaxRequests == 1   \* debug-service requests over the run
MaxNodes    == 3   \* nodes of a flattened call-trace

ClientFork == 1    \* the fork id a client names in the request path
NoFork     == 0    \* "" : no fork id

Frame(fn, pc, req, forkId) ==
  [fn |-> fn, pc |-> pc, req |-> req, forkId |-> forkId,
   helper |-> NoFork, n |-> 0, node |-> 0]

\* One externally visible step of frame f.
Ev(f, kind, fork, node) ==
  [req |-> f.req, by |-> f.fn, kind |-> kind, fork |-> fork, node |-> node]

Running(fn, pc) ==
  /\ calls # <<>>
  /\ Head(calls).fn = fn
  /\ Head(calls).pc = pc

Top == Head(calls)

GotoWith(frame) ==
  /\ calls' = <<frame>> \o Tail(calls)
  /\ UNCHANGED answered

Goto(pc) == GotoWith([Top EXCEPT !.pc = pc])

\* The call of a callee: the caller waits at pc `wait`.
Call(callee, wait) ==
  /\ calls' = <<callee, [Top EXCEPT !.pc = wait]>> \o Tail(calls)
  /\ UNCHANGED answered

\* Where SimulateRawTransaction goes on after a callee returned.
AfterCall(wait, result) ==
  IF result # "ok" THEN "failed"
  ELSE IF wait = "in_contracts" THEN "debug" ELSE "delete"

\* return: to the caller's next statement, or the answer of the request.
\* A panic unwinds every frame of the request.
Return(result) ==
  IF Len(calls) = 1 \/ result = "panic"
    THEN /\ calls' = <<>>
         /\ answered' = Append(answered,
               [req |-> Top.req, fn |-> calls[Len(calls)].fn, result |-> result])
    ELSE /\ calls' = <<[calls[2] EXCEPT !.pc = AfterCall(calls[2].pc, result)]>>
                       \o Tail(Tail(calls))
         /\ UNCHANGED answered

CanArrive ==
  /\ calls = <<>>
  /\ reqs < MaxRequests

\* ------------------------------------------------------ DebugTransaction

\* GET /debug/debugTransaction/:forkId arrives.
debugTransactionCallTraceHandler ==
  /\ CanArrive
  /\ reqs' = reqs + 1
  /\ calls' = <<Frame("DebugTransaction", "opcode", reqs + 1, ClientFork)>>
  /\ UNCHANGED <<sent, nextFork, answered, forkVars, walkVars, helperVars>>

\* Mutant of DebugTransaction_GetOpcodeTrace: the receipt is fetched first.
DebugTransaction_GetOpcodeTrace_AfterReceipt ==
  /\ Running("DebugTransaction", "opcode")
  /\ sent' = sent \o <<Ev(Top, "receipt", Top.forkId, 0),
                       Ev(Top, "opcode_trace", Top.forkId, 0)>>
  /\ \E ok \in BOOLEAN : IF ok THEN Goto("create") ELSE Return("err")
  /\ UNCHANGED <<nextFork, reqs, forkVars, walkVars, helperVars>>

\* debugTrace, err := s.evmService.GetOpcodeTrace(forkId, txHash)
DebugTransaction_GetOpcodeTrace ==
  /\ Running("DebugTransaction", "opcode")
  /\ sent' = Append(sent, Ev(Top, "opcode_trace", Top.forkId, 0))
  /\ \E ok \in BOOLEAN : IF ok THEN Goto("create") ELSE Return("err")
  /\ UNCHANGED <<nextFork, reqs, forkVars, walkVars, helperVars>>

\* Mutant of DebugTransaction_CreateFork: the call trace is not fetched.
DebugTransaction_CreateFork_NoTrace ==
  /\ Running("DebugTransaction", "create")
  /\ \E ok \in BOOLEAN :
       IF ok
         THEN /\ sent' = Append(sent, Ev(Top, "create_fork", nextFork, 0))
              /\ nextFork' = nextFork + 1
              /\ GotoWith([Top EXCEPT !.pc = "receipt", !.helper = nextFork])
         ELSE /\ sent' = Append(sent, Ev(Top, "create_fork", NoFork, 0))
              /\ UNCHANGED nextFork
              /\ Return("err")
  /\ UNCHANGED <<reqs, forkVars, walkVars, helperVars>>

\* helperForkId, err := s.forkService.CreateFork(1)
DebugTransaction_CreateFork ==
  /\ Running("DebugTransaction", "create")
  /\ \E ok \in BOOLEAN :
       IF ok
         THEN /\ sent' = Append(sent, Ev(Top, "create_fork", nextFork, 0))
              /\ nextFork' = nextFork + 1
              /\ GotoWith([Top EXCEPT !.pc = "trace", !.helper = nextFork])
         ELSE /\ sent' = Append(sent, Ev(Top, "create_fork", NoFork, 0))
              /\ UNCHANGED nextFork
              /\ Return("err")
  /\ UNCHANGED <<reqs, forkVars, walkVars, helperVars>>

\* time.Sleep(3s); trace, err := s.evmService.GetTransactionTrace(helperForkId,
\* txHash); an empty trace is an error.
DebugTransaction_GetTransactionTrace ==
  /\ Running("DebugTransaction", "trace")
  /\ sent' = Append(sent, Ev(Top, "call_trace", Top.helper, 0))
  /\ \E ok \in BOOLEAN : \E n \in 0..MaxNodes :
       IF ok /\ n > 0
         THEN GotoWith([Top EXCEPT !.pc = "code", !.n = n, !.node = 1])
         ELSE Return("err")
  /\ UNCHANGED <<nextFork, reqs, forkVars, walkVars, helperVars>>

\* s.evmService.GetContractBytecode(helperForkId, traceEntry.To)
DebugTransaction_GetContractBytecode ==
  /\ Running("DebugTransaction", "code")
  /\ sent' = Append(sent, Ev(Top, "eth_getCode", Top.helper, Top.node))
  /\ \E ok \in BOOLEAN : IF ok THEN Goto("source") ELSE Return("err")
  /\ UNCHANGED <<nextFork, reqs, forkVars, walkVars, helperVars>>

\* s.GetSourceCode(traceEntry.To): a failed explorer lookup gives the
\* placeholder bundle, a failed save, compile or read is an error.
DebugTransaction_GetSourceCode ==
  /\ Running("DebugTransaction", "source")
  /\ sent' = Append(sent, Ev(Top, "source", NoFork, Top.node))
  /\ \E ok \in BOOLEAN : IF ok THEN Goto("compiled") ELSE Return("err")
  /\ UNCHANGED <<nextFork, reqs, forkVars, walkVars, helperVars>>

\* s.GetSourceMappingAndFileNames(traceEntry.To), then the next trace entry.
DebugTransaction_GetSourceMapping ==
  /\ Running("DebugTransaction", "compiled")
  /\ sent' = Append(sent, Ev(Top, "compiled", NoFork, Top.node))
  /\ \E ok \in BOOLEAN :
       IF ~ok THEN Return("err")
       ELSE IF Top.node < Top.n
         THEN GotoWith([Top EXCEPT !.pc = "code", !.node = Top.node + 1])
         ELSE Goto("receipt")
  /\ UNCHANGED <<nextFork, reqs, forkVars, walkVars, helperVars>>

\* revertReason, err := s.evmService.GetTransactionErrorMessage(forkId, txHash)
DebugTransaction_GetTransactionErrorMessage ==
  /\ Running("DebugTransaction", "receipt")
  /\ sent' = Append(sent, Ev(Top, "receipt", Top.forkId, 0))
  /\ \E ok \in BOOLEAN : IF ok THEN Goto("delete") ELSE Return("err")
  /\ UNCHANGED <<nextFork, reqs, forkVars, walkVars, helperVars>>

\* err = s.forkService.DeleteFork(helperForkId): logged, never returned.
DebugTransaction_DeleteFork ==
  /\ Running("DebugTransaction", "delete")
  /\ sent' = Append(sent, Ev(Top, "delete_fork", Top.helper, 0))
  /\ Goto("walk")
  /\ UNCHANGED <<nextFork, reqs, forkVars, walkVars, helperVars>>

\* The struct-log walk and the return: a result, an error, or a panic.
DebugTransaction_Walk ==
  /\ Running("DebugTransaction", "walk")
  /\ \E result \in {"ok", "err", "panic"} : Return(result)
  /\ UNCHANGED <<sent, nextFork, reqs, forkVars, walkVars, helperVars>>

\* ---------------------------------------------------- GetContractsCalled

\* GET /debug/contractsCalled/:forkId arrives.
getContractsCalledHandler ==
  /\ CanArrive
  /\ reqs' = reqs + 1
  /\ calls' = <<Frame("GetContractsCalled", "create", reqs + 1, ClientFork)>>
  /\ UNCHANGED <<sent, nextFork, answered, forkVars, walkVars, helperVars>>

\* traceForkId, err := s.forkService.CreateFork(1)
GetContractsCalled_CreateFork ==
  /\ Running("GetContractsCalled", "create")
  /\ \E ok \in BOOLEAN :
       IF ok
         THEN /\ sent' = Append(sent, Ev(Top, "create_fork", nextFork, 0))
              /\ nextFork' = nextFork + 1
              /\ GotoWith([Top EXCEPT !.pc = "trace", !.helper = nextFork])
         ELSE /\ sent' = Append(sent, Ev(Top, "create_fork", NoFork, 0))
              /\ UNCHANGED nextFork
              /\ Return("err")
  /\ UNCHANGED <<reqs, forkVars, walkVars, helperVars>>

\* time.Sleep(5s); traces, err := s.evmService.GetTransactionTrace(traceForkId, txHash)
GetContractsCalled_GetTransactionTrace ==
  /\ Running("GetContractsCalled", "trace")
  /\ sent' = Append(sent, Ev(Top, "call_trace", Top.helper, 0))
  /\ \E ok \in BOOLEAN : IF ok THEN Goto("delete") ELSE Goto("delete_failed")
  /\ UNCHANGED <<nextFork, reqs, forkVars, walkVars, helperVars>>

\* Mutant of GetContractsCalled_DeleteFork: the trace fork is not deleted.
GetContractsCalled_DeleteFork_Skipped ==
  /\ calls # <<>>
  /\ Top.fn = "GetContractsCalled"
  /\ Top.pc \in {"delete", "delete_failed"}
  /\ Return(IF Top.pc = "delete" THEN "ok" ELSE "err")
  /\ UNCHANGED <<sent, nextFork, reqs, forkVars, walkVars, helperVars>>

\* s.forkService.DeleteFork(traceForkId) on both paths, its error ignored;
\* then the error of the trace, or the extraction (no external step but the
\* ABI lookups, whose failures give "Unknown" entries).
GetContractsCalled_DeleteFork ==
  /\ calls # <<>>
  /\ Top.fn = "GetContractsCalled"
  /\ Top.pc \in {"delete", "delete_failed"}
  /\ sent' = Append(sent, Ev(Top, "delete_fork", Top.helper, 0))
  /\ Return(IF Top.pc = "delete" THEN "ok" ELSE "err")
  /\ UNCHANGED <<nextFork, reqs, forkVars, walkVars, helperVars>>

\* ------------------------------------------------ SimulateRawTransaction

\* POST /simulate/simulateRawTx arrives.
simulateRawTxHandler ==
  /\ CanArrive
  /\ reqs' = reqs + 1
  /\ calls' = <<Frame("SimulateRawTransaction", "create", reqs + 1, NoFork)>>
  /\ UNCHANGED <<sent, nextFork, answered, forkVars, walkVars, helperVars>>

\* forkId, err := s.forkService.CreateFork(1)
SimulateRawTransaction_CreateFork ==
  /\ Running("SimulateRawTransaction", "create")
  /\ \E ok \in BOOLEAN :
       IF ok
         THEN /\ sent' = Append(sent, Ev(Top, "create_fork", nextFork, 0))
              /\ nextFork' = nextFork + 1
              /\ GotoWith([Top EXCEPT !.pc = "send", !.forkId = nextFork])
         ELSE /\ sent' = Append(sent, Ev(Top, "create_fork", NoFork, 0))
              /\ UNCHANGED nextFork
              /\ Return("err")
  /\ UNCHANGED <<reqs, forkVars, walkVars, helperVars>>

\* time.Sleep(3s); s.evmService.SendRpcRequest(forkId, rawData) and the
\* decoding of its response.
SimulateRawTransaction_SendRpcRequest ==
  /\ Running("SimulateRawTransaction", "send")
  /\ sent' = Append(sent, Ev(Top, "client_payload", Top.forkId, 0))
  /\ \E ok \in BOOLEAN : IF ok THEN Goto("mine") ELSE Return("err")
  /\ UNCHANGED <<nextFork, reqs, forkVars, walkVars, helperVars>>

\* s.evmService.MineTx(forkId)
SimulateRawTransaction_MineTx ==
  /\ Running("SimulateRawTransaction", "mine")
  /\ sent' = Append(sent, Ev(Top, "evm_mine", Top.forkId, 0))
  /\ \E ok \in BOOLEAN : IF ok THEN Goto("contracts") ELSE Return("err")
  /\ UNCHANGED <<nextFork, reqs, forkVars, walkVars, helperVars>>

\* contractsCalled, err := s.GetContractsCalled(forkId, txHash)
SimulateRawTransaction_GetContractsCalled ==
  /\ Running("SimulateRawTransaction", "contracts")
  /\ Call(Frame("GetContractsCalled", "create", Top.req, Top.forkId), "in_contracts")
  /\ UNCHANGED <<sent, nextFork, reqs, forkVars, walkVars, helperVars>>

\* errorLineNumber, revertReason, debugTrace, err := s.DebugTransaction(forkId, txHash)
SimulateRawTransaction_DebugTransaction ==
  /\ Running("SimulateRawTransaction", "debug")
  /\ Call(Frame("DebugTransaction", "opcode", Top.req, Top.forkId), "in_debug")
  /\ UNCHANGED <<sent, nextFork, reqs, forkVars, walkVars, helperVars>>

\* if err != nil { return nil, 0, "", nil, err } after either callee.
SimulateRawTransaction_ReturnErr ==
  /\ Running("SimulateRawTransaction", "failed")
  /\ Return("err")
  /\ UNCHANGED <<sent, nextFork, reqs, forkVars, walkVars, helperVars>>

\* errDelete := s.forkService.DeleteFork(forkId)
SimulateRawTransaction_DeleteFork ==
  /\ Running("SimulateRawTransaction", "delete")
  /\ sent' = Append(sent, Ev(Top, "delete_fork", Top.forkId, 0))
  /\ \E ok \in BOOLEAN : Return(IF ok THEN "ok" ELSE "err")
  /\ UNCHANGED <<nextFork, reqs, forkVars, walkVars, helperVars>>

\* -------------------------------------------------- GetLastAddressCalled

\* GetLastAddressCalled(forkId, txHash): an exported method of the debug
\* service that no route of main.go calls.
GetLastAddressCalled ==
  /\ CanArrive
  /\ reqs' = reqs + 1
  /\ sent' = Append(sent,
        Ev(Frame("GetLastAddressCalled", "trace", reqs + 1, ClientFork),
           "call_trace", ClientFork, 0))
  /\ \E ok \in BOOLEAN :
       answered' = Append(answered,
          [req |-> reqs + 1, fn |-> "GetLastAddressCalled",
           result |-> IF ok THEN "ok" ELSE "err"])
  /\ UNCHANGED <<calls, nextFork, forkVars, walkVars, helperVars>>

\* ------------------------------------------------------------ DebugSpec

DebugInit ==
  /\ HelpersOff
  /\ ForkIdle
  /\ WalkOff
  /\ calls = <<>>
  /\ sent = <<>>
  /\ nextFork = ClientFork + 1
  /\ reqs = 0
  /\ answered = <<>>

DebugNext ==
  \/ debugTransactionCallTraceHandler
  \/ DebugTransaction_GetOpcodeTrace
  \/ DebugTransaction_CreateFork
  \/ DebugTransaction_GetTransactionTrace
  \/ DebugTransaction_GetContractBytecode
  \/ DebugTransaction_GetSourceCode
  \/ DebugTransaction_GetSourceMapping
  \/ DebugTransaction_GetTransactionErrorMessage
  \/ DebugTransaction_DeleteFork
  \/ DebugTransaction_Walk
  \/ getContractsCalledHandler
  \/ GetContractsCalled_CreateFork
  \/ GetContractsCalled_GetTransactionTrace
  \/ GetContractsCalled_DeleteFork
  \/ simulateRawTxHandler
  \/ SimulateRawTransaction_CreateFork
  \/ SimulateRawTransaction_SendRpcRequest
  \/ SimulateRawTransaction_MineTx
  \/ SimulateRawTransaction_GetContractsCalled
  \/ SimulateRawTransaction_DebugTransaction
  \/ SimulateRawTransaction_ReturnErr
  \/ SimulateRawTransaction_DeleteFork
  \/ GetLastAddressCalled

DebugSpec == DebugInit /\ [][DebugNext]_vars

\* ------------------------------------------------- claims on DebugSpec

IsPrefix(a, b) ==
  /\ Len(a) <= Len(b)
  /\ \A i \in 1..Len(a) : a[i] = b[i]

\* What an observer sees of a step: its kind, the fork it goes to, the node.
Seen(e) == <<e.kind, e.fork, e.node>>

\* The steps of DebugTransaction in request r, in the order they were taken.
DebugSteps(r) ==
  LET own == SelectSeq(sent, LAMBDA e : e.req = r /\ e.by = "DebugTransaction")
  IN  [i \in 1..Len(own) |-> Seen(own[i])]

\* The order the specification prescribes for a call-trace of n nodes,
\* primary fork P and helper fork H.
PrescribedOrder(n, P, H) ==
  <<  <<"opcode_trace", P, 0>>, <<"create_fork", H, 0>>, <<"call_trace", H, 0>>  >>
  \o [j \in 1..(3 * n) |->
        LET node == ((j - 1) \div 3) + 1
            part == (j - 1) % 3
        IN  IF part = 0 THEN <<"eth_getCode", H, node>>
            ELSE IF part = 1 THEN <<"source", NoFork, node>>
            ELSE <<"compiled", NoFork, node>>]
  \o <<  <<"receipt", P, 0>>, <<"delete_fork", H, 0>>  >>

\* The fork a DebugTransaction of request r is asked to debug: the fork
\* SimulateRawTransaction created in r, else the fork the client named.
PrimaryOf(r) ==
  LET made == {i \in DOMAIN sent :
                 /\ sent[i].req = r
                 /\ sent[i].by = "SimulateRawTransaction"
                 /\ sent[i].kind = "create_fork"}
  IN  IF made = {} THEN ClientFork ELSE sent[CHOOSE i \in made : TRUE].fork

\* C11: within one debug_transaction request the externally visible steps
\* occur in exactly this order: opcode trace on the primary fork, helper-fork
\* create, call trace on the helper fork, bytecode, source and compiled
\* record for every call-trace node, revert reason on the primary fork,
\* helper-fork delete.  A request that fails on the way has taken a prefix
\* of that order; one that reaches the struct-log walk has taken all of it.
C11_DebugStepOrder ==
  \A r \in 1..reqs :
    /\ \E n \in 0..MaxNodes : \E H \in 0..nextFork :
         /\ H # PrimaryOf(r)
         /\ IsPrefix(DebugSteps(r), PrescribedOrder(n, PrimaryOf(r), H))
    /\ (Running("DebugTransaction", "walk") /\ Top.req = r)
         => /\ Top.n >= 1
            /\ DebugSteps(r) = PrescribedOrder(Top.n, PrimaryOf(r), Top.helper)

\* C11 witness: a debug_transaction whose call trace has two nodes or more
\* has taken every step and is about to walk the struct-logs.
C11_Witness ==
  /\ Running("DebugTransaction", "walk")
  /\ Top.n >= 2
  /\ Len(DebugSteps(Top.req)) = 5 + 3 * Top.n

\* C12: the opcode trace is the first RPC debug_transaction sends to the
\* primary fork: any other step of DebugTransaction that goes to the primary
\* fork (eth_getCode, receipt, call tracer) comes after the opcode trace of
\* the same request, also when SimulateRawTransaction calls it.
C12_OpcodeTraceFirst ==
  \A i \in DOMAIN sent :
    (/\ sent[i].by = "DebugTransaction"
     /\ sent[i].fork = PrimaryOf(sent[i].req)
     /\ sent[i].kind # "opcode_trace")
      => \E j \in 1..(i - 1) :
           /\ sent[j].req = sent[i].req
           /\ sent[j].by = "DebugTransaction"
           /\ sent[j].kind = "opcode_trace"
           /\ sent[j].fork = sent[i].fork

\* C12 witness: a DebugTransaction called by SimulateRawTransaction has
\* fetched the receipt from the primary fork.
C12_Witness ==
  \E i \in DOMAIN sent :
    /\ sent[i].by = "DebugTransaction"
    /\ sent[i].kind = "receipt"
    /\ sent[i].fork = PrimaryOf(sent[i].req)
    /\ sent[i].fork # ClientFork

\* C13: the call-tracer debug_traceTransaction never goes to the
\* caller-supplied fork: every operation of the debug service sends it only
\* to a fork that the same operation created before.
C13_CallTraceOnlyOnOwnHelper ==
  \A i \in DOMAIN sent :
    sent[i].kind = "call_trace"
      => \E j \in 1..(i - 1) :
           /\ sent[j].kind = "create_fork"
           /\ sent[j].req = sent[i].req
           /\ sent[j].by = sent[i].by
           /\ sent[j].fork = sent[i].fork
           /\ sent[j].fork # NoFork

\* =====================================================================
\* Debug service: the struct-log walk of DebugTransaction
\* (debug/structs.go from "opcodes := debugTrace.StructLogs" to the return,
\* with getOpcodeNumber, fileIdValid and getLineNumber).
\*
\* Strings that the code parses or scans (byte offsets, file ids, bytecode,
\* source text) are sequences of one-character strings; strings it only
\* compares (opcode names, file names, addresses) are strings.

MaxLogs == 2       \* struct-logs of an opcode trace

\* ----------------------------------------------------- strconv and strings

DecimalDigits == <<"0", "1", "2", "3", "4", "5", "6", "7", "8", "9">>
HexDigits == DecimalDigits \o <<"a", "b", "c", "d", "e", "f">>

IsDigit(c) == \E d \in DOMAIN DecimalDigits : DecimalDigits[d] = c
DigitVal(c) == (CHOOSE d \in DOMAIN DecimalDigits : DecimalDigits[d] = c) - 1
IsHex(c) == \E d \in DOMAIN HexDigits : HexDigits[d] = c
HexVal(c) == (CHOOSE d \in DOMAIN HexDigits : HexDigits[d] = c) - 1

RECURSIVE DecimalVal(_)
DecimalVal(s) ==
  IF s = <<>> THEN 0
  ELSE 10 * DecimalVal(SubSeq(s, 1, Len(s) - 1)) + DigitVal(s[Len(s)])

\* strconv.Atoi: an optional sign, then one decimal digit or more.
Atoi(s) ==
  LET signed == s # <<>> /\ s[1] \in {"+", "-"}
      body   == IF signed THEN Tail(s) ELSE s
  IN  IF body = <<>> \/ \E i \in DOMAIN body : ~IsDigit(body[i])
        THEN [err |-> TRUE, val |-> 0]
        ELSE [err |-> FALSE,
              val |-> IF signed /\ s[1] = "-" THEN 0 - DecimalVal(body)
                                               ELSE DecimalVal(body)]

\* strings.Contains
Contains(s, sub) ==
  \E i \in 0..(Len(s) - Len(sub)) : SubSeq(s, i + 1, i + Len(sub)) = sub

\* ------------------------------------------------------ utils.go, structs.go

targetOpcodes ==
  <<"CALL", "DELEGATECALL", "STATICCALL", "CREATE", "CREATE2",
    "SLOAD", "SSTORE", "LOG0", "LOG1", "LOG2", "LOG3", "LOG4",
    "REVERT", "JUMP">>

\* Mutant of isTargetOpcode: every opcode is let through.
isTargetOpcode_Any(opcode) == opcode = opcode

isTargetOpcode(opcode) ==
  \E t \in DOMAIN targetOpcodes : targetOpcodes[t] = opcode

\* "No source code available"
UnverifiedMarker ==
  <<"N", "o", " ", "s", "o", "u", "r", "c", "e", " ", "c", "o", "d", "e",
    " ", "a", "v", "a", "i", "l", "a", "b", "l", "e">>

\* "// No source code available - contract is not verified"
PlaceholderSource ==
  <<"/", "/", " ", "N", "o", " ", "s", "o", "u", "r", "c", "e", " ", "c",
    "o", "d", "e", " ", "a", "v", "a", "i", "l", "a", "b", "l", "e", " ",
    "-", " ", "c", "o", "n", "t", "r", "a", "c", "t", " ", "i", "s", " ",
    "n", "o", "t", " ", "v", "e", "r", "i", "f", "i", "e", "d">>

\* The test DebugTransaction makes on contract.sourceCodes.
IsUnverified(sourceCodes) ==
  /\ Cardinality(DOMAIN sourceCodes) = 1
  /\ \E filename \in DOMAIN sourceCodes :
       /\ filename = "unverified.sol"
       /\ Contains(sourceCodes[filename], UnverifiedMarker)

\* getOpcodeNumber's loop: i is the index into the hex string (from 0), pc
\* the program counter of the instruction at i, opcodeCounter the number of
\* instructions read.  The bytecode of eth_getCode is "0x" and hex digits;
\* strconv.ParseInt fails on anything else.
RECURSIVE OpcodeNumberLoop(_, _, _, _, _)
OpcodeNumberLoop(contractBytecode, opcodePC, i, pc, opcodeCounter) ==
  IF i >= Len(contractBytecode) - 1
    THEN [err |-> TRUE, n |-> 0]
  ELSE IF pc = opcodePC
    THEN [err |-> FALSE, n |-> opcodeCounter]
  ELSE IF ~IsHex(contractBytecode[i + 1]) \/ ~IsHex(contractBytecode[i + 2])
    THEN [err |-> TRUE, n |-> 0]
  ELSE
    LET opcodeInt == 16 * HexVal(contractBytecode[i + 1])
                       + HexVal(contractBytecode[i + 2])
        increment == opcodeInt - 95
        nextPC    == pc + increment + 1
    IN  IF opcodeInt > 95 /\ opcodeInt < 128
          THEN IF opcodePC > pc /\ opcodePC < nextPC
                 THEN [err |-> FALSE, n |-> opcodeCounter + 1]
                 ELSE OpcodeNumberLoop(contractBytecode, opcodePC,
                        i + increment * 2 + 2, nextPC, opcodeCounter + 1)
          ELSE OpcodeNumberLoop(contractBytecode, opcodePC,
                 i + 2, pc + 1, opcodeCounter + 1)

\* Mutant of getOpcodeNumber: bytes are counted, not instructions.
getOpcodeNumber_ByteIndex(opcodePC, contractBytecode) ==
  IF 2 * opcodePC + 2 >= Len(contractBytecode) - 1
    THEN [err |-> TRUE, n |-> 0]
    ELSE [err |-> FALSE, n |-> opcodePC]

getOpcodeNumber(opcodePC, contractBytecode) ==
  OpcodeNumberLoop(contractBytecode, opcodePC, 2, 0, 0)

\* Mutant of fileIdValid: the range test is dropped.
fileIdValid_AnyNumber(fileId, fileIds) == ~Atoi(fileId).err

fileIdValid(fileId, fileIds) ==
  LET fileIdNum == Atoi(fileId)
  IN  /\ ~fileIdNum.err
      /\ fileIdNum.val < Cardinality(DOMAIN fileIds)
      /\ fileIdNum.val >= 0

\* getLineNumber: "err" is Atoi's error, "panic" the slice bounds panic of
\* sourceCode[:bytesOffsetInt], else the number of "\n"-separated pieces of
\* the prefix.
getLineNumber(sourceCode, bytesOffset) ==
  LET bytesOffsetInt == Atoi(bytesOffset)
  IN  IF bytesOffsetInt.err
        THEN [outcome |-> "err", line |-> 0]
      ELSE IF bytesOffsetInt.val < 0 \/ bytesOffsetInt.val > Len(sourceCode)
        THEN [outcome |-> "panic", line |-> 0]
      ELSE [outcome |-> "ok",
            line |-> 1 + Cardinality({j \in 1..bytesOffsetInt.val :
                                        sourceCode[j] = "\n"})]

\* ----------------------------------------------------------- walk inputs

\* A source-map entry (Opcode of structs.go) as decompressSourceMap leaves it.
SourceMapEntry(offset, fileId, jumpType) ==
  [Offset |-> offset, Length |-> <<"1">>, FileID |-> fileId,
   JumpType |-> jumpType, ModifierDepth |-> <<>>]

\* Three bytes of source: line 1 up to offset 1, line 2 from offset 2.
SourceText == <<"a", "\n", "b">>

\* PUSH1 0x80, SLOAD, JUMP: instructions at pc 0, 2 and 3.
Bytecode == <<"0", "x", "6", "0", "8", "0", "5", "4", "5", "6">>

\* The entry of the first instruction: file id 0, offset 0.
FirstEntry == SourceMapEntry(<<"0">>, <<"0">>, "i")

\* Entries of the second instruction: a good one on the same line and one on
\* the next line, a non-semantic jump, file ids that are negative, too
\* large, not a number, absent from fileNames, or naming a file the bundle
\* lacks, and offsets that are not a number or lie beyond the source.
SecondEntries ==
  {SourceMapEntry(<<"1">>, <<"0">>, "i"),
   SourceMapEntry(<<"2">>, <<"0">>, "i"),
   SourceMapEntry(<<"2">>, <<"0">>, "-"),
   SourceMapEntry(<<"2">>, <<"-", "1">>, "i"),
   SourceMapEntry(<<"2">>, <<"5">>, "i"),
   SourceMapEntry(<<"2">>, <<"x">>, "i"),
   SourceMapEntry(<<"2">>, <<"2">>, "i"),
   SourceMapEntry(<<"2">>, <<"1">>, "i"),
   SourceMapEntry(<<"z">>, <<"0">>, "i"),
   SourceMapEntry(<<"9">>, <<"0">>, "i")}

\* A verified contract: three source files in the bundle, and a compiled
\* record whose file ids 0, 1 and 5 name A.sol, C.sol and A.sol.
VerifiedContract(address, sourceMap) ==
  [address |-> address,
   bytecode |-> Bytecode,
   sourceCodes |-> [f \in {"A.sol", "B.sol", "D.sol"} |-> SourceText],
   fileNames |-> [id \in {<<"0">>, <<"1">>, <<"5">>} |->
                    IF id = <<"1">> THEN "C.sol" ELSE "A.sol"],
   decompressedSourceMap |-> sourceMap]

\* What DebugTransaction stores for a contract whose explorer lookup failed
\* (the placeholders of GetSourceCode and GetSourceMappingAndFileNames;
\* decompressSourceMap("") is one entry of empty fields).
UnverifiedContract(address) ==
  [address |-> address,
   bytecode |-> Bytecode,
   sourceCodes |-> [f \in {"unverified.sol"} |-> PlaceholderSource],
   fileNames |-> [id \in {<<"0">>} |-> "unverified.sol"],
   decompressedSourceMap |->
     <<[Offset |-> <<>>, Length |-> <<>>, FileID |-> <<>>,
        JumpType |-> "", ModifierDepth |-> <<>>]>>]

\* contractMap[depth] of a depth the call trace has no node for: the zero
\* ContractEntry.
ZeroContractEntry ==
  [address |-> "", bytecode |-> <<>>, sourceCodes |-> <<>>,
   fileNames |-> <<>>, decompressedSourceMap |-> <<>>]

Depths == {1, 2}

ContractsAt(depth) ==
  IF depth = 1
    THEN {UnverifiedContract("0xA"), VerifiedContract("0xA", <<>>),
          VerifiedContract("0xA", <<FirstEntry>>)}
           \cup {VerifiedContract("0xA", <<FirstEntry, e>>) : e \in SecondEntries}
    ELSE {UnverifiedContract("0xB"),
          VerifiedContract("0xB",
             <<FirstEntry, SourceMapEntry(<<"2">>, <<"0">>, "i")>>)}

ContractMaps ==
  UNION {{m \in [D -> ContractsAt(1) \cup ContractsAt(2)] :
            \A d \in D : m[d] \in ContractsAt(d)} : D \in SUBSET Depths}

\* A struct-log of the opcode trace; pc 4 is past the end of Bytecode.
StructLogs == [Op : {"SLOAD", "JUMP", "RETURN"}, Pc : {0, 2, 4}, Depth : Depths]

StructLogStreams == UNION {[1..n -> StructLogs] : n \in 0..MaxLogs}

\* contract := contractMap[structLog.Depth]
ContractAt(depth) ==
  IF depth \in DOMAIN contractMap THEN contractMap[depth] ELSE ZeroContractEntry

\* ---------------------------------------------------------- the walk

\* Mutant of UnverifiedEntry: the placeholder line is 0.
UnverifiedEntry_LineZero(structLog, contract) ==
  [Opcode |-> structLog.Op, LineNumber |-> 0, File |-> "unverified.sol",
   ContractAddress |-> contract.address, Depth |-> structLog.Depth]

\* The entry appended for a target opcode of an unverified contract.
UnverifiedEntry(structLog, contract) ==
  [Opcode |-> structLog.Op, LineNumber |-> 1, File |-> "unverified.sol",
   ContractAddress |-> contract.address, Depth |-> structLog.Depth]

\* Mutant of DegradedEntry: the line is 0 instead of -1.
DegradedEntry_LineZero(structLog, contract) ==
  [Opcode |-> structLog.Op, LineNumber |-> 0, File |-> "unknown",
   ContractAddress |-> contract.address, Depth |-> structLog.Depth]

\* The entry appended when the PC is not found or the opcode number is out
\* of the source-map.
DegradedEntry(structLog, contract) ==
  [Opcode |-> structLog.Op, LineNumber |-> 0 - 1, File |-> "unknown",
   ContractAddress |-> contract.address, Depth |-> structLog.Depth]

Emit(entry) == [kind |-> "emit", entry |-> entry]
Skip        == [kind |-> "skip", entry |-> <<>>]
AbortWith(kind) == [kind |-> kind, entry |-> <<>>]

\* The part of the loop body for a target opcode whose opcode number is
\* inside the source-map.
CorrelateTarget(structLog, contract, opcodeNumber, emitted) ==
  LET fileId   == contract.decompressedSourceMap[opcodeNumber + 1].FileID
      jumpType == contract.decompressedSourceMap[opcodeNumber + 1].JumpType
      bytesOffset == contract.decompressedSourceMap[opcodeNumber + 1].Offset
  IN  IF structLog.Op = "JUMP" /\ jumpType = "-" THEN Skip
      ELSE IF ~fileIdValid(fileId, contract.sourceCodes) THEN Skip
      ELSE IF fileId \notin DOMAIN contract.fileNames THEN Skip
      ELSE IF contract.fileNames[fileId] \notin DOMAIN contract.sourceCodes THEN Skip
      ELSE
        LET fileName   == contract.fileNames[fileId]
            lineNumber == getLineNumber(contract.sourceCodes[fileName], bytesOffset)
        IN  IF lineNumber.outcome = "err" THEN AbortWith("LineNumberErr")
            ELSE IF lineNumber.outcome = "panic" THEN AbortWith("SlicePanic")
            ELSE IF /\ Len(emitted) # 0
                    /\ emitted[Len(emitted)].LineNumber = lineNumber.line
                    /\ structLog.Op # "RETURN"
              THEN Skip
            ELSE Emit([Opcode |-> structLog.Op, LineNumber |-> lineNumber.line,
                       File |-> fileName, ContractAddress |-> contract.address,
                       Depth |-> structLog.Depth])

\* One iteration of "for i, structLog := range debugTrace.StructLogs".
LoopBody(structLog, contract, emitted) ==
  LET opcodeNumber == getOpcodeNumber(structLog.Pc, contract.bytecode)
  IN  IF IsUnverified(contract.sourceCodes)
        THEN IF isTargetOpcode(structLog.Op)
               THEN Emit(UnverifiedEntry(structLog, contract)) ELSE Skip
      ELSE IF opcodeNumber.err
        THEN IF isTargetOpcode(structLog.Op)
               THEN Emit(DegradedEntry(structLog, contract)) ELSE Skip
      ELSE IF opcodeNumber.n >= Len(contract.decompressedSourceMap)
        THEN IF isTargetOpcode(structLog.Op)
               THEN Emit(DegradedEntry(structLog, contract)) ELSE Skip
      ELSE IF isTargetOpcode(structLog.Op)
        THEN CorrelateTarget(structLog, contract, opcodeNumber.n, emitted)
      ELSE Skip

\* if len(opcodes) == 0 { return -1, "", nil, errors.New("no debug trace detected") }
Walk_NoOpcodes ==
  /\ walkResult = "walking"
  /\ Len(structLogs) = 0
  /\ walkResult' = "NoDebugTrace"
  /\ UNCHANGED <<structLogs, contractMap, logIndex, filteredOpcodes, emittedAt,
                 forkVars, debugVars, helperVars>>

\* The loop body on the next struct-log: an entry is appended, or the
\* struct-log is skipped, or getLineNumber's error is returned, or the
\* slice expression of getLineNumber panics.
Walk_StructLog ==
  /\ walkResult = "walking"
  /\ logIndex < Len(structLogs)
  /\ LET structLog == structLogs[logIndex + 1]
         step == LoopBody(structLog, ContractAt(structLog.Depth), filteredOpcodes)
     IN  IF step.kind = "emit"
           THEN /\ filteredOpcodes' = Append(filteredOpcodes, step.entry)
                /\ emittedAt' = Append(emittedAt, logIndex + 1)
                /\ logIndex' = logIndex + 1
                /\ UNCHANGED walkResult
         ELSE IF step.kind = "skip"
           THEN /\ logIndex' = logIndex + 1
                /\ UNCHANGED <<filteredOpcodes, emittedAt, walkResult>>
         ELSE /\ walkResult' = step.kind
              /\ UNCHANGED <<filteredOpcodes, emittedAt, logIndex>>
  /\ UNCHANGED <<structLogs, contractMap, forkVars, debugVars, helperVars>>

\* return filteredOpcodes[len(filteredOpcodes)-1].LineNumber, errorMessage,
\* filteredOpcodes, nil: an index-out-of-range panic when nothing was emitted.
Walk_Return ==
  /\ walkResult = "walking"
  /\ Len(structLogs) # 0
  /\ logIndex = Len(structLogs)
  /\ walkResult' = IF Len(filteredOpcodes) = 0 THEN "IndexPanic" ELSE "ok"
  /\ UNCHANGED <<structLogs, contractMap, logIndex, filteredOpcodes, emittedAt,
                 forkVars, debugVars, helperVars>>

WalkInit ==
  /\ HelpersOff
  /\ ForkIdle
  /\ DebugOff
  /\ structLogs \in StructLogStreams
  /\ contractMap \in ContractMaps
  /\ logIndex = 0
  /\ filteredOpcodes = <<>>
  /\ emittedAt = <<>>
  /\ walkResult = "walking"

WalkNext ==
  \/ Walk_NoOpcodes
  \/ Walk_StructLog
  \/ Walk_Return

WalkSpec == WalkInit /\ [][WalkNext]_vars

\* -------------------------------------------------- claims on WalkSpec

\* The target opcode set as the specification lists it.
TargetSet ==
  {"CALL", "DELEGATECALL", "STATICCALL", "CREATE", "CREATE2", "SLOAD",
   "SSTORE", "LOG0", "LOG1", "LOG2", "LOG3", "LOG4", "REVERT", "JUMP"}

\* The struct-log the loop is about to process, and its contract.
NextLog == structLogs[logIndex + 1]
NextContract == ContractAt(NextLog.Depth)

\* The loop is processing a struct-log in this step.
WalkStepTaken == walkResult = "walking" /\ logIndex < Len(structLogs)

\* The iteration ended normally: the walk goes on with the next struct-log.
WalkContinues == logIndex' = logIndex + 1 /\ walkResult' = "walking"

\* The source bundle is the placeholder of an unverified contract.
IsPlaceholderBundle(contract) ==
  /\ DOMAIN contract.sourceCodes = {"unverified.sol"}
  /\ contract.sourceCodes["unverified.sol"] = PlaceholderSource

\* C14: trace filter monotonicity.  The emitted CallTrace list is a
\* subsequence of the struct-log stream: each entry comes from a struct-log
\* of its own, in struct-log order, carries that struct-log's opcode and
\* depth, and its opcode is in the target set.
C14_TraceFilterMonotone ==
  /\ Len(emittedAt) = Len(filteredOpcodes)
  /\ \A j \in DOMAIN filteredOpcodes :
       /\ emittedAt[j] \in 1..logIndex
       /\ j > 1 => emittedAt[j - 1] < emittedAt[j]
       /\ filteredOpcodes[j].Opcode = structLogs[emittedAt[j]].Op
       /\ filteredOpcodes[j].Depth = structLogs[emittedAt[j]].Depth
       /\ filteredOpcodes[j].Opcode \in TargetSet

\* C14 witness: a trace was returned from a stream of which one struct-log
\* was kept and another, with an opcode outside the target set, was not.
C14_Witness ==
  /\ walkResult = "ok"
  /\ Len(filteredOpcodes) >= 1
  /\ \E k \in DOMAIN structLogs : structLogs[k].Op \notin TargetSet

\* C15: same-line collapse.  Of two adjacent emitted entries with the same
\* file, line and address the second has opcode RETURN, whatever kind of
\* entry they are.
C15_SameLineCollapse ==
  \A j \in 2..Len(filteredOpcodes) :
    (/\ filteredOpcodes[j].File = filteredOpcodes[j - 1].File
     /\ filteredOpcodes[j].LineNumber = filteredOpcodes[j - 1].LineNumber
     /\ filteredOpcodes[j].ContractAddress = filteredOpcodes[j - 1].ContractAddress)
      => filteredOpcodes[j].Opcode = "RETURN"

\* C16: when the walk has consumed every struct-log (or there was none) and
\* no entry was emitted, debug_transaction returns the NoDebugTrace error.
C16_NoEntryIsNoDebugTrace ==
  (/\ walkResult # "walking"
   /\ logIndex = Len(structLogs)
   /\ filteredOpcodes = <<>>)
    => walkResult = "NoDebugTrace"

\* C17: unverified passthrough.  For a struct-log whose depth maps to an
\* unverified contract the loop emits exactly one entry if the opcode is in
\* the target set, with file "unverified.sol", line 1, the contract's address
\* and the struct-log's opcode and depth, and none otherwise; the walk goes on.
C17_UnverifiedPassthrough ==
  [][(WalkStepTaken /\ IsPlaceholderBundle(NextContract))
       => /\ WalkContinues
          /\ filteredOpcodes' =
               IF NextLog.Op \in TargetSet
                 THEN Append(filteredOpcodes,
                        [Opcode |-> NextLog.Op, LineNumber |-> 1,
                         File |-> "unverified.sol",
                         ContractAddress |-> NextContract.address,
                         Depth |-> NextLog.Depth])
                 ELSE filteredOpcodes]_vars

\* C17 witness: the walk is over a stream with a target and a non-target
\* opcode at an unverified depth and has emitted the placeholder entry.
C17_Witness ==
  /\ logIndex = Len(structLogs)
  /\ \E j \in DOMAIN filteredOpcodes : filteredOpcodes[j].File = "unverified.sol"
  /\ \E k \in DOMAIN structLogs :
       /\ structLogs[k].Op \notin TargetSet
       /\ IsPlaceholderBundle(ContractAt(structLogs[k].Depth))

\* C18: a per-entry correlation failure never aborts the trace: once the
\* walk has started it ends only after the last struct-log.
C18_WalkReachesLastStructLog ==
  (walkResult # "walking" /\ Len(structLogs) > 0) => logIndex = Len(structLogs)

\* A target opcode of a verified contract whose opcode number is inside the
\* source-map and whose source-map entry has a file id that is not a
\* base-10 integer in [0, number of source files).
InvalidFileIdCase(structLog, contract) ==
  LET opcodeNumber == getOpcodeNumber(structLog.Pc, contract.bytecode)
  IN  /\ structLog.Op \in TargetSet
      /\ ~IsPlaceholderBundle(contract)
      /\ ~opcodeNumber.err
      /\ opcodeNumber.n < Len(contract.decompressedSourceMap)
      /\ LET id == Atoi(contract.decompressedSourceMap[opcodeNumber.n + 1].FileID)
         IN  id.err \/ id.val < 0 \/ id.val >= Cardinality(DOMAIN contract.sourceCodes)

\* C19 as claimed: an invalid file id produces a placeholder trace entry and
\* the walk continues.
C19_InvalidFileIdEmitsPlaceholder ==
  [][(WalkStepTaken /\ InvalidFileIdCase(NextLog, NextContract))
       => /\ WalkContinues
          /\ Len(filteredOpcodes') = Len(filteredOpcodes) + 1]_vars

\* C19 as the code has it: a target-set opcode whose source-map entry has an
\* invalid file id is skipped: no trace entry is emitted for that struct-log
\* and the walk continues with the next one.
C19_InvalidFileIdSkipped ==
  [][(WalkStepTaken /\ InvalidFileIdCase(NextLog, NextContract))
       => /\ WalkContinues
          /\ filteredOpcodes' = filteredOpcodes]_vars

\* C19 witness: the walk has gone past a struct-log with an invalid file id
\* that names an entry of fileNames.
C19_Witness ==
  \E k \in 1..logIndex :
    /\ InvalidFileIdCase(structLogs[k], ContractAt(structLogs[k].Depth))
    /\ LET c == ContractAt(structLogs[k].Depth)
           n == getOpcodeNumber(structLogs[k].Pc, c.bytecode).n
       IN  c.decompressedSourceMap[n + 1].FileID \in DOMAIN c.fileNames

\* The PC of the struct-log cannot be mapped to an opcode number, or the
\* number is not below the length of the decompressed source-map.
UnmappedCase(structLog, contract) ==
  LET opcodeNumber == getOpcodeNumber(structLog.Pc, contract.bytecode)
  IN  /\ ~IsPlaceholderBundle(contract)
      /\ \/ opcodeNumber.err
         \/ opcodeNumber.n >= Len(contract.decompressedSourceMap)

\* C20: at a verified contract, when the PC cannot be mapped to an opcode
\* index or the index is at or beyond the source-map length, a target-set
\* opcode gets exactly one degraded entry {op, -1, "unknown", address, depth}
\* and a non-target opcode gets none; the walk continues.
C20_DegradedEntry ==
  [][(WalkStepTaken /\ UnmappedCase(NextLog, NextContract))
       => /\ WalkContinues
          /\ filteredOpcodes' =
               IF NextLog.Op \in TargetSet
                 THEN Append(filteredOpcodes,
                        [Opcode |-> NextLog.Op, LineNumber |-> 0 - 1,
                         File |-> "unknown",
                         ContractAddress |-> NextContract.address,
                         Depth |-> NextLog.Depth])
                 ELSE filteredOpcodes]_vars

\* C20 witness: the walk has emitted degraded entries for a PC that is not
\* in the bytecode and for an opcode number beyond the source-map, both at a
\* contract that has bytecode.
C20_Witness ==
  /\ \E k \in 1..logIndex :
       LET c == ContractAt(structLogs[k].Depth)
       IN  /\ UnmappedCase(structLogs[k], c)
           /\ c.bytecode # <<>>
           /\ getOpcodeNumber(structLogs[k].Pc, c.bytecode).err
           /\ structLogs[k].Op \in TargetSet
  /\ \E k \in 1..logIndex :
       LET c == ContractAt(structLogs[k].Depth)
       IN  /\ UnmappedCase(structLogs[k], c)
           /\ ~getOpcodeNumber(structLogs[k].Pc, c.bytecode).err
           /\ structLogs[k].Op \in TargetSet
  /\ Len(filteredOpcodes) = 2
  /\ \A j \in DOMAIN filteredOpcodes : filteredOpcodes[j].File = "unknown"

\* ===================================================== PC -> opcode index
\* getOpcodeNumber (debug/structs.go) as a function of its two arguments:
\* the specification draws a bytecode and a program counter and calls it.

MaxBytes == 5

\* The bytes the bytecodes are made of: PUSH1, PUSH2, DUP1, BLOCKHASH, MSTORE.
ByteCatalogue ==
  {<<"6", "0">>, <<"6", "1">>, <<"8", "0">>, <<"4", "0">>, <<"5", "2">>}

\* The hex string eth_getCode returns for a sequence of bytes.
RECURSIVE HexString(_)
HexString(bytes) ==
  IF bytes = <<>> THEN <<"0", "x">>
  ELSE HexString(SubSeq(bytes, 1, Len(bytes) - 1)) \o bytes[Len(bytes)]

Bytecodes ==
  {HexString(b) : b \in UNION {[1..n -> ByteCatalogue] : n \in 0..MaxBytes}}

\* Every other helper is idle while the PC lookup is exercised.
PcOthersOff == SrcmapOff /\ BalanceOff /\ ExplorerOff /\ CacheOff /\ TraceOff /\ ReasonOff

PcInit ==
  /\ ForkIdle
  /\ DebugOff
  /\ WalkOff
  /\ PcOthersOff
  /\ pcBytecode \in Bytecodes
  /\ pcTarget \in 0..MaxBytes
  /\ pcResult = <<>>

\* opcodeNumber, err := s.getOpcodeNumber(structLog.Pc, contract.bytecode)
getOpcodeNumber_Call ==
  /\ pcResult = <<>>
  /\ pcResult' = <<getOpcodeNumber(pcTarget, pcBytecode)>>
  /\ UNCHANGED <<pcBytecode, pcTarget, forkVars, debugVars, walkVars, srcmapVars,
                 balanceVars, explorerVars, cacheVars,
                 traceVars, reasonVars>>

PcNext ==
  \/ getOpcodeNumber_Call

PcSpec == PcInit /\ [][PcNext]_vars

\* ------------------------------------------------------ claims on PcSpec

\* The bytecode of scenario E6, 0x6080604052.
E6Bytecode == <<"0", "x", "6", "0", "8", "0", "6", "0", "4", "0", "5", "2">>

\* The indices scenario E6 lists for pc = 0, 1, 2, 3, 4.
E6Expected == <<0, 0, 1, 1, 2>>

\* The byte of the bytecode at program counter p.
ByteValueAt(bytecode, p) ==
  16 * HexVal(bytecode[2 * p + 3]) + HexVal(bytecode[2 * p + 4])

ByteCount(bytecode) == (Len(bytecode) - 2) \div 2

\* The width of the instruction whose opcode byte is b: a PUSHn and its
\* n immediate bytes, or one byte.
InstructionWidth(b) == IF b >= 96 /\ b <= 127 THEN b - 95 + 1 ELSE 1

\* The instruction of the bytecode that covers program counter p, found by
\* decoding from the instruction `index` that starts at `start`:
\* [index, start, push], index -1 if p is beyond the bytecode.
RECURSIVE InstructionCovering(_, _, _, _)
InstructionCovering(bytecode, p, index, start) ==
  IF start >= ByteCount(bytecode)
    THEN [index |-> -1, start |-> start, push |-> FALSE]
  ELSE LET b == ByteValueAt(bytecode, start)
           w == InstructionWidth(b)
       IN  IF p < start + w
             THEN [index |-> index, start |-> start, push |-> w > 1]
             ELSE InstructionCovering(bytecode, p, index + 1, start + w)

PcCalled == pcResult # <<>>

\* The program counter lies strictly inside the immediate of a PUSHn.
InsidePushImmediate ==
  LET c == InstructionCovering(pcBytecode, pcTarget, 0, 0)
  IN  c.index >= 0 /\ c.push /\ pcTarget > c.start

\* C21: for bytecode 0x6080604052 the lookup returns 0, 0, 1, 1, 2 for
\* pc = 0, 1, 2, 3, 4, and in general a program counter strictly inside the
\* immediate of a PUSHn maps to the index of that PUSHn instruction.
C21_PcLookupE6 ==
  PcCalled =>
    /\ (pcBytecode = E6Bytecode /\ pcTarget <= 4) =>
         /\ ~pcResult[1].err
         /\ pcResult[1].n = E6Expected[pcTarget + 1]
    /\ InsidePushImmediate =>
         /\ ~pcResult[1].err
         /\ pcResult[1].n = InstructionCovering(pcBytecode, pcTarget, 0, 0).index

\* What the code returns on the bytecode of E6 and inside an immediate: the
\* counter after its increment, the index of the instruction that follows.
C21_CodeReturnsFollowingIndex ==
  PcCalled =>
    /\ (pcBytecode = E6Bytecode /\ pcTarget <= 4) =>
         /\ ~pcResult[1].err
         /\ pcResult[1].n = <<0, 1, 1, 2, 2>>[pcTarget + 1]
    /\ InsidePushImmediate =>
         /\ ~pcResult[1].err
         /\ pcResult[1].n =
              InstructionCovering(pcBytecode, pcTarget, 0, 0).index + 1

\* ================================================ source-map decompression
\* decompressSourceMap and removeBlankSpaces (debug/utils.go) as functions of
\* the srcmap string, a sequence of characters.

MaxEntries == 3

\* strings.Split(s, sep) for a one-character separator.
RECURSIVE SplitLoop(_, _, _, _, _)
SplitLoop(s, sep, i, current, parts) ==
  IF i > Len(s) THEN Append(parts, current)
  ELSE IF s[i] = sep
    THEN SplitLoop(s, sep, i + 1, <<>>, Append(parts, current))
    ELSE SplitLoop(s, sep, i + 1, Append(current, s[i]), parts)

Split(s, sep) == SplitLoop(s, sep, 1, <<>>, <<>>)

\* strings.Join(parts, sep).
RECURSIVE Join(_, _)
Join(parts, sep) ==
  IF parts = <<>> THEN <<>>
  ELSE IF Len(parts) = 1 THEN parts[1]
  ELSE Join(SubSeq(parts, 1, Len(parts) - 1), sep) \o <<sep>> \o parts[Len(parts)]

\* The struct Opcode of structs.go; its fields are strings.
Opcode(offset, length, fileId, jumpType, modifierDepth) ==
  [Offset |-> offset, Length |-> length, FileID |-> fileId,
   JumpType |-> jumpType, ModifierDepth |-> modifierDepth]

\* var prevOpcode Opcode: the zero value.
ZeroOpcode == Opcode(<<>>, <<>>, <<>>, <<>>, <<>>)

\* The switch on len(opcodeEntries): no case matches six fields or more, and
\* currOpcode keeps the value of the previous iteration.
OpcodeOfEntries(opcodeEntries, prevOpcode, currOpcode) ==
  IF Len(opcodeEntries) = 1
    THEN Opcode(opcodeEntries[1], prevOpcode.Length, prevOpcode.FileID,
                prevOpcode.JumpType, prevOpcode.ModifierDepth)
  ELSE IF Len(opcodeEntries) = 2
    THEN Opcode(opcodeEntries[1], opcodeEntries[2], prevOpcode.FileID,
                prevOpcode.JumpType, prevOpcode.ModifierDepth)
  ELSE IF Len(opcodeEntries) = 3
    THEN Opcode(opcodeEntries[1], opcodeEntries[2], opcodeEntries[3],
                prevOpcode.JumpType, prevOpcode.ModifierDepth)
  ELSE IF Len(opcodeEntries) = 4
    THEN Opcode(opcodeEntries[1], opcodeEntries[2], opcodeEntries[3],
                opcodeEntries[4], prevOpcode.ModifierDepth)
  ELSE IF Len(opcodeEntries) = 5
    THEN Opcode(opcodeEntries[1], opcodeEntries[2], opcodeEntries[3],
                opcodeEntries[4], opcodeEntries[5])
  ELSE currOpcode

\* removeBlankSpaces: ModifierDepth is not among the fields it fills.
removeBlankSpaces(currOpcode, prevOpcode) ==
  Opcode(IF currOpcode.Offset = <<>> THEN prevOpcode.Offset ELSE currOpcode.Offset,
         IF currOpcode.Length = <<>> THEN prevOpcode.Length ELSE currOpcode.Length,
         IF currOpcode.FileID = <<>> THEN prevOpcode.FileID ELSE currOpcode.FileID,
         IF currOpcode.JumpType = <<>> THEN prevOpcode.JumpType
                                       ELSE currOpcode.JumpType,
         currOpcode.ModifierDepth)

\* Mutant of NextPrevOpcode: the entry as it was before removeBlankSpaces.
NextPrevOpcode_Unfilled(filled, unfilled) == unfilled

\* prevOpcode = currOpcode, after removeBlankSpaces wrote through the pointer.
NextPrevOpcode(filled, unfilled) == filled

\* The range loop of decompressSourceMap from its k-th iteration on.
RECURSIVE DecompressLoop(_, _, _, _, _)
DecompressLoop(opcodes, k, prevOpcode, currOpcode, decompressedSourceMap) ==
  IF k > Len(opcodes) THEN decompressedSourceMap
  ELSE LET opcodeEntries == Split(opcodes[k], ":")
           unfilled == OpcodeOfEntries(opcodeEntries, prevOpcode, currOpcode)
           filled   == removeBlankSpaces(unfilled, prevOpcode)
       IN  DecompressLoop(opcodes, k + 1, NextPrevOpcode(filled, unfilled),
                          filled, Append(decompressedSourceMap, filled))

decompressSourceMap(srcmap) ==
  DecompressLoop(Split(srcmap, ";"), 1, ZeroOpcode, ZeroOpcode, <<>>)

\* The value the k-th entry of an input writes in its non-empty fields.
EntryDigit(k) == <<DecimalDigits[k + 1]>>

\* The k-th entry of an input: one to six fields, all written out or with
\* the first or the last of them empty.
EntryTexts(k) ==
  {Join([i \in 1..n |-> IF i = blank THEN <<>> ELSE EntryDigit(k)], ":") :
     n \in 1..6, blank \in {0, 1, 6}} \cup
  {Join([i \in 1..n |-> IF i = n THEN <<>> ELSE EntryDigit(k)], ":") :
     n \in 1..6}

\* The lists of n entries, the k-th of them from EntryTexts(k).
RECURSIVE EntryLists(_)
EntryLists(n) ==
  IF n = 0 THEN {<<>>}
  ELSE {Append(entries, entry) :
          entries \in EntryLists(n - 1), entry \in EntryTexts(n)}

\* The compressed source maps the specification draws from.
SourceMaps ==
  {Join(entries, ";") : entries \in UNION {EntryLists(n) : n \in 1..MaxEntries}}

SrcmapOthersOff == PcOff /\ BalanceOff /\ ExplorerOff /\ CacheOff /\ TraceOff /\ ReasonOff

SrcmapInit ==
  /\ ForkIdle
  /\ DebugOff
  /\ WalkOff
  /\ SrcmapOthersOff
  /\ compressed \in SourceMaps
  /\ decompressed = <<>>
  /\ redecompressed = <<>>

\* decompressedSourceMap: decompressSourceMap(compiledContract.Srcmap)
decompressSourceMap_Call ==
  /\ decompressed = <<>>
  /\ decompressed' = <<decompressSourceMap(compressed)>>
  /\ UNCHANGED <<compressed, redecompressed, forkVars, debugVars, walkVars, pcVars,
                 balanceVars, explorerVars, cacheVars,
                 traceVars, reasonVars>>

\* An entry list written out with all five fields of every entry.
SerialiseOpcode(opcode) ==
  Join(<<opcode.Offset, opcode.Length, opcode.FileID, opcode.JumpType,
         opcode.ModifierDepth>>, ":")

Serialise(opcodeList) ==
  Join([k \in 1..Len(opcodeList) |-> SerialiseOpcode(opcodeList[k])], ";")

\* decompressSourceMap on the re-serialised result of the first call.
decompressSourceMap_Again ==
  /\ decompressed # <<>>
  /\ redecompressed = <<>>
  /\ redecompressed' = <<decompressSourceMap(Serialise(decompressed[1]))>>
  /\ UNCHANGED <<compressed, decompressed, forkVars, debugVars, walkVars, pcVars,
                 balanceVars, explorerVars, cacheVars,
                 traceVars, reasonVars>>

SrcmapNext ==
  \/ decompressSourceMap_Call
  \/ decompressSourceMap_Again

SrcmapSpec == SrcmapInit /\ [][SrcmapNext]_vars

\* -------------------------------------------------- claims on SrcmapSpec

\* The entries of the input and the fields each of them writes.
InputEntries == Split(compressed, ";")
InputFields(k) == Split(InputEntries[k], ":")

OpcodeFieldNames == <<"Offset", "Length", "FileID", "JumpType", "ModifierDepth">>

\* Entry k of the input omits field f or gives it as the empty string.
OmittedOrEmpty(k, f) ==
  \/ Len(InputFields(k)) < f
  \/ InputFields(k)[f] = <<>>

\* C22: every one of the five fields that an entry omits or leaves empty has
\* the value of the same field of the previous decompressed entry.
C22_InheritsEveryField ==
  decompressed # <<>> =>
    \A k \in 2..Len(InputEntries) : \A f \in 1..5 :
      OmittedOrEmpty(k, f) =>
        decompressed[1][k][OpcodeFieldNames[f]]
          = decompressed[1][k - 1][OpcodeFieldNames[f]]

\* What holds of the code: the first four fields are inherited when omitted
\* or empty, modifier_depth only when omitted.
C22_ModifierDepthOnlyWhenOmitted ==
  decompressed # <<>> =>
    \A k \in 2..Len(InputEntries) : \A f \in 1..5 :
      (OmittedOrEmpty(k, f) /\ (f = 5 => Len(InputFields(k)) # 5)) =>
        decompressed[1][k][OpcodeFieldNames[f]]
          = decompressed[1][k - 1][OpcodeFieldNames[f]]

\* C23: decompressing, writing all five fields of every entry out and
\* decompressing again gives the entry list of the first decompression.
C23_DecompressIdempotent ==
  redecompressed # <<>> => redecompressed[1] = decompressed[1]

\* A three-entry map whose entries inherit fields has gone through both
\* decompressions.
C23_Witness ==
  /\ redecompressed # <<>>
  /\ Len(decompressed[1]) = 3
  /\ Serialise(decompressed[1]) # compressed
  /\ \E f \in 1..5 : OmittedOrEmpty(3, f) /\ OmittedOrEmpty(2, f)

\* ================================================== ERC-20 balance override
\* balance.Service.SetERC20Balance and getSlot (fork/dbRepo/dbRepo.go): the
\* loop over mapping slots, one action per call it makes to the evm service.
\* keccak256 is taken to be collision-free: a storage slot is identified with
\* the 64 bytes that were hashed.

ProbeLimit == 100
WordChars == 64

Target == "target"            \* the balance argument
Other  == "other"             \* some balance that is not the argument

UserAddress == <<"0", "x", "a", "1">>

\* strconv-free decimal formatting of a non-negative int (the verb %v).
RECURSIVE FormatDecimal(_)
FormatDecimal(n) ==
  IF n < 10 THEN <<DecimalDigits[n + 1]>>
  ELSE FormatDecimal(n \div 10) \o <<DecimalDigits[(n % 10) + 1]>>

\* strings.TrimPrefix(account, "0x")
TrimPrefix0x(account) ==
  IF Len(account) >= 2 /\ account[1] = "0" /\ account[2] = "x"
    THEN SubSeq(account, 3, Len(account)) ELSE account

\* Left padding of fmt's width 64 with the given pad character.
PadLeft(text, pad) ==
  IF Len(text) >= WordChars THEN text
  ELSE [i \in 1..(WordChars - Len(text)) |-> pad] \o text

\* The number a string of hex digits denotes (big-endian bytes).
RECURSIVE HexNumber(_)
HexNumber(text) ==
  IF text = <<>> THEN 0
  ELSE 16 * HexNumber(SubSeq(text, 1, Len(text) - 1)) + HexVal(text[Len(text)])

\* fmt.Sprintf("%064v", slotNumber): the decimal digits, zero-padded.
SlotText(n) == PadLeft(FormatDecimal(n), "0")

\* getSlot: [err, account, slot], the two 32-byte words hex.DecodeString
\* yields from the concatenated text, as numbers; err if it is not hex.
getSlot(account, n, padsWithZeros) ==
  LET paddedAddress == PadLeft(TrimPrefix0x(account),
                               IF padsWithZeros THEN "0" ELSE " ")
      concatenated  == paddedAddress \o SlotText(n)
  IN  IF Len(concatenated) % 2 = 1
         \/ \E i \in DOMAIN concatenated : ~IsHex(concatenated[i])
        THEN [err |-> TRUE, account |-> 0, slot |-> 0]
        ELSE [err |-> FALSE,
              account |-> HexNumber(SubSeq(concatenated, 1,
                                           Len(concatenated) - WordChars)),
              slot |-> HexNumber(SubSeq(concatenated,
                                        Len(concatenated) - WordChars + 1,
                                        Len(concatenated)))]

\* The mapping slots the token may keep its balances in; -1: none.
TokenSlots == -1..20

\* What eth_call balanceOf(user) returns on the fork: the value written if
\* the written slot is the user's entry of the token's balance mapping.
BalanceOf ==
  IF written # <<>> /\ ~written[1].err
     /\ written[1].account = HexNumber(TrimPrefix0x(UserAddress))
     /\ written[1].slot = tokenSlot
    THEN Target ELSE original

BalanceOthersOff == PcOff /\ SrcmapOff /\ ExplorerOff /\ CacheOff /\ TraceOff /\ ReasonOff

BalanceInit ==
  /\ ForkIdle
  /\ DebugOff
  /\ WalkOff
  /\ BalanceOthersOff
  /\ ercPc = "GetCurrentSnapshot"
  /\ slotNumber = 0
  /\ balanceSlot = <<>>
  /\ written = <<>>
  /\ tokenSlot \in TokenSlots
  /\ original \in {Target, Other}
  /\ currBalance = ""
  /\ ercResult = "running"
  /\ zeroPads \in BOOLEAN

BalanceRest == <<forkVars, debugVars, walkVars, pcVars, srcmapVars, explorerVars,
                cacheVars, traceVars, reasonVars>>

\* return err / return nil
ReturnFromSetERC20Balance(result) ==
  /\ ercPc' = "done"
  /\ ercResult' = result

\* snapshot, err := s.evmService.GetCurrentSnapshot(forkId)
SetERC20Balance_GetCurrentSnapshot ==
  /\ ercPc = "GetCurrentSnapshot"
  /\ \/ ReturnFromSetERC20Balance("rpc error")
     \/ ercPc' = "getSlot" /\ UNCHANGED ercResult
  /\ UNCHANGED <<slotNumber, balanceSlot, written, tokenSlot, original,
                 currBalance, zeroPads, BalanceRest>>

\* balanceSlot, err := getSlot(userAddress, slotNumber)
SetERC20Balance_getSlot ==
  /\ ercPc = "getSlot"
  /\ LET slot == getSlot(UserAddress, slotNumber, zeroPads)
     IN  IF slot.err
           THEN ReturnFromSetERC20Balance("hex error") /\ UNCHANGED balanceSlot
           ELSE /\ balanceSlot' = <<slot>>
                /\ ercPc' = "ChangeStorageSlot"
                /\ UNCHANGED ercResult
  /\ UNCHANGED <<slotNumber, written, tokenSlot, original, currBalance,
                 zeroPads, BalanceRest>>

\* err = s.evmService.ChangeStorageSlot(forkId, tokenAddress, balance, balanceSlot)
SetERC20Balance_ChangeStorageSlot ==
  /\ ercPc = "ChangeStorageSlot"
  /\ \/ ReturnFromSetERC20Balance("rpc error") /\ UNCHANGED written
     \/ /\ written' = balanceSlot
        /\ ercPc' = "GetERC20Balance"
        /\ UNCHANGED ercResult
  /\ UNCHANGED <<slotNumber, balanceSlot, tokenSlot, original, currBalance,
                 zeroPads, BalanceRest>>

\* currBalance, err := s.GetERC20Balance(...); if currBalance == balance
\* { return nil }
SetERC20Balance_GetERC20Balance ==
  /\ ercPc = "GetERC20Balance"
  /\ \/ ReturnFromSetERC20Balance("rpc error") /\ UNCHANGED currBalance
     \/ /\ currBalance' = BalanceOf
        /\ IF BalanceOf = Target
             THEN ReturnFromSetERC20Balance("nil")
             ELSE ercPc' = "RevertState" /\ UNCHANGED ercResult
  /\ UNCHANGED <<slotNumber, balanceSlot, written, tokenSlot, original,
                 zeroPads, BalanceRest>>

\* if errRevert != nil { return err }: err is the nil GetERC20Balance left.
RevertFailed == "nil"

\* errRevert := s.evmService.RevertState(forkId, snapshot), the loop's
\* increment and test, and the return after the loop.
SetERC20Balance_RevertState ==
  /\ ercPc = "RevertState"
  /\ \/ ReturnFromSetERC20Balance(RevertFailed)
        /\ UNCHANGED <<slotNumber, written>>
     \/ /\ written' = <<>>
        /\ slotNumber' = slotNumber + 1
        /\ IF slotNumber + 1 < ProbeLimit
             THEN ercPc' = "GetCurrentSnapshot" /\ UNCHANGED ercResult
             ELSE ReturnFromSetERC20Balance("Mapping slot for given address not found!")
  /\ UNCHANGED <<balanceSlot, tokenSlot, original, currBalance, zeroPads,
                 BalanceRest>>

BalanceNext ==
  \/ SetERC20Balance_GetCurrentSnapshot
  \/ SetERC20Balance_getSlot
  \/ SetERC20Balance_ChangeStorageSlot
  \/ SetERC20Balance_GetERC20Balance
  \/ SetERC20Balance_RevertState

BalanceSpec == BalanceInit /\ [][BalanceNext]_vars

\* ------------------------------------------------- claims on BalanceSpec

\* C24: SetERC20Balance returns success only if the balanceOf read back after
\* a storage write equals the target balance; every other outcome, a failure
\* of snapshot, set-storage, eth_call or revert included, is an error.
C24_SuccessOnlyOnReadBack ==
  (ercPc = "done" /\ ercResult = "nil") => currBalance = Target

\* C25: the second 32-byte word of the preimage of every probe is the slot
\* number of that probe, so that the probes cover the mapping slots 0..99.
C25_PreimageSlotIsSlotNumber ==
  (ercPc \in {"ChangeStorageSlot", "GetERC20Balance", "RevertState"}) =>
    balanceSlot[1].slot = slotNumber

\* =========================================================== explorer client
\* etherscan.Service.GetSourceCodeInfo and GetAbi (etherscan/service.go): the
\* retry loop around one HTTP request, and what the request makes of the
\* response body.

MaxRateLimited == 3

Forever == -1

RateLimitMessage == "Max rate limit reached"

\* A response whose result is a JSON string.
TextBody(status, message, result) ==
  [kind |-> "text", status |-> status, message |-> message, result |-> result,
   entries |-> 0, sourceCode |-> ""]

\* A response whose result is a JSON list of n entries.
ListBody(status, message, n, sourceCode) ==
  [kind |-> "list", status |-> status, message |-> message, result |-> "",
   entries |-> n, sourceCode |-> sourceCode]

\* http.Get or io.ReadAll failed, or the body is not JSON.
NoBody(kind) ==
  [kind |-> kind, status |-> "", message |-> "", result |-> "",
   entries |-> 0, sourceCode |-> ""]

\* The body the explorer sends when it rate-limits a request.
RateLimitBody == TextBody("0", "NOTOK", RateLimitMessage)

\* What a request can meet when the explorer does not rate-limit it.
OtherResponses ==
  {NoBody("transport"), NoBody("garbage"),
   TextBody("0", "NOTOK", "Invalid API Key"),
   TextBody("1", "OK", "[abi]"),
   ListBody("1", "OK", 1, "contract C {}"),
   ListBody("1", "OK", 1, "{sources}"),
   ListBody("1", "OK", 1, ""),
   ListBody("1", "OK", 0, ""),
   ListBody("0", "NOTOK", 0, "")}

\* getSourceCodeInfo on a response: what it returns (an error text, or
\* "info" for a SourceCodeInfo), or "panic" for the index expression
\* Result[0] on an empty list.
getSourceCodeInfo(response) ==
  IF response.kind = "transport" THEN "transport error"
  ELSE IF response.kind = "garbage" THEN "json error"
  ELSE IF response.kind = "text" THEN response.result
  ELSE IF response.status # "1" \/ response.message # "OK"
    THEN "failed to get source code"
  ELSE IF response.entries = 0 THEN "panic"
  ELSE IF response.sourceCode = "" THEN "failed to get source code"
  ELSE "info"

\* getAbi on a response: an error text, or "abi" for the result string.
getAbi(response) ==
  IF response.kind = "transport" THEN "transport error"
  ELSE IF response.kind \in {"garbage", "list"} THEN "json error"
  ELSE IF response.status # "1" \/ response.message # "OK"
    THEN response.result
  ELSE "abi"

\* Mutant of IsRateLimit: no error is taken for a rate limit.
IsRateLimit_Never(err) == FALSE

\* if err.Error() == "Max rate limit reached"
IsRateLimit(err) == err = RateLimitMessage

ExplorerOthersOff == PcOff /\ SrcmapOff /\ BalanceOff /\ CacheOff /\ TraceOff /\ ReasonOff

ExplorerInit ==
  /\ ForkIdle
  /\ DebugOff
  /\ WalkOff
  /\ ExplorerOthersOff
  /\ explorerFn \in {"GetSourceCodeInfo", "GetAbi"}
  /\ explorerPc = "request"
  /\ limited \in {Forever} \cup 0..MaxRateLimited
  /\ attempts = 0
  /\ lastOutcome = ""
  /\ explorerResult = "running"

ExplorerRest == <<forkVars, debugVars, walkVars, pcVars, srcmapVars, balanceVars,
                 cacheVars, traceVars, reasonVars>>

\* err != nil after getSourceCodeInfo or getAbi.
IsError(outcome) == outcome \notin {"info", "abi", "panic"}

\* One iteration of the for loop up to the sleep: the request, and the
\* return, or the decision to retry.  The explorer rate-limits the request
\* if it reaches it and `limited` is not used up.
Explorer_Request ==
  /\ explorerPc = "request"
  /\ \E response \in OtherResponses \cup {RateLimitBody} :
       /\ response = RateLimitBody => limited # 0
       /\ (response.kind # "transport" /\ response # RateLimitBody) => limited = 0
       /\ limited' = IF response = RateLimitBody /\ limited > 0
                       THEN limited - 1 ELSE limited
       /\ LET outcome == IF explorerFn = "GetSourceCodeInfo"
                           THEN getSourceCodeInfo(response)
                           ELSE getAbi(response)
          IN  /\ lastOutcome' = outcome
              /\ IF IsError(outcome) /\ IsRateLimit(outcome)
                   THEN explorerPc' = "sleep" /\ UNCHANGED explorerResult
                   ELSE explorerPc' = "done" /\ explorerResult' = outcome
  /\ attempts' = IF attempts <= MaxRateLimited THEN attempts + 1 ELSE attempts
  /\ UNCHANGED <<explorerFn, ExplorerRest>>

\* time.Sleep(500 * time.Millisecond); continue
Explorer_Sleep ==
  /\ explorerPc = "sleep"
  /\ explorerPc' = "request"
  /\ UNCHANGED <<explorerFn, limited, attempts, lastOutcome, explorerResult,
                 ExplorerRest>>

ExplorerNext ==
  \/ Explorer_Request
  \/ Explorer_Sleep

ExplorerSpec == ExplorerInit /\ [][ExplorerNext]_vars

\* The goroutine of the request keeps running: neither the request nor the
\* sleep blocks for ever.
ExplorerLiveSpec == ExplorerSpec /\ WF_vars(ExplorerNext)

\* ------------------------------------------------ claims on ExplorerLiveSpec

\* C26: GetSourceCodeInfo and GetAbi never return the rate-limit outcome; a
\* request that meets it is followed by the sleep and another request, a
\* request that meets anything else ends the call at once with that outcome;
\* the call ends if the explorer stops rate-limiting, and while the explorer
\* rate-limits every request only a failure to reach it ends the call.
C26_RateLimitRetry ==
  /\ [](explorerResult # RateLimitMessage)
  /\ [][explorerPc = "request" =>
          IF lastOutcome' = RateLimitMessage
            THEN explorerPc' = "sleep" /\ explorerResult' = "running"
            ELSE explorerPc' = "done" /\ explorerResult' = lastOutcome']_vars
  /\ [][explorerPc = "sleep" => explorerPc' = "request"]_vars
  /\ [](limited = Forever => explorerResult \in {"running", "transport error"})
  /\ (limited # Forever) ~> (explorerPc = "done")

\* A call that was rate-limited twice has returned the explorer's answer to
\* its third request.
C26_Witness ==
  /\ explorerPc = "done"
  /\ attempts = 3
  /\ limited = 0
  /\ explorerResult \in {"info", "abi"}

\* ============================================================== source cache
\* debug.Service.GetSourceCode and GetSourceMappingAndFileNames
\* (debug/structs.go) with saveSourceCode, compileContract and the readers of
\* debug/utils.go, for one address: what they leave on disk and return.

MaxSourceCalls == 4

CachedAddress == "0xA"

\* The files of the address: output/sourceCodeInfos/<address>.sol and .json
\* (source: "good" or "partial" content), output/compiledContracts/
\* <address>.json (compiled: "none", "single", "standard", or "empty").
DiskOf(sol, json, source, compiled) ==
  [sol |-> sol, json |-> json, source |-> source, compiled |-> compiled]

EmptyDisk == DiskOf(FALSE, FALSE, "none", "none")

\* fileExists(outputDir+address+".sol") || fileExists(outputDir+address+".json")
Cached(d) == d.sol \/ d.json

\* What GetSourceCodeInfo gives: an error, or the info of a single-file or of
\* a standard-JSON contract.
Lookups == {"error", "single", "standard"}

\* saveSourceCode: os.Create fails, or file.WriteString fails after the file
\* was created, or the source is written.
Saves == {"ok", "create failed", "write failed"}

\* compileContract: the compiler or the post-processing fails, or the
\* compiled record is written.
Compiles == {"ok", "failed"}

AfterSave(d, lookup, save) ==
  IF save = "create failed" THEN d
  ELSE DiskOf(d.sol \/ lookup = "single", d.json \/ lookup = "standard",
              IF save = "ok" THEN "good" ELSE "partial", d.compiled)

\* The standard-JSON branch creates the output file before it runs solc.
AfterCompile(d, lookup, compile) ==
  IF compile = "ok" THEN [d EXCEPT !.compiled = lookup]
  ELSE IF lookup = "standard" THEN [d EXCEPT !.compiled = "empty"]
  ELSE d

\* A result of either function: the error, the map returned (sourceCodes, or
\* CompiledContract.Sources) and CompiledContract.Srcmap.
Result(err, files, srcmap) == [err |-> err, files |-> files, srcmap |-> srcmap]

\* readSourceCodeFromFile
readSourceCodeFromFile(d) ==
  IF d.json
    THEN IF d.source = "good"
           THEN Result("nil", [f \in {"A.sol", "B.sol"} |-> SourceText], <<>>)
           ELSE Result("json error", <<>>, <<>>)
  ELSE IF d.sol
    THEN Result("nil", [f \in {"0xA.sol"} |->
                          IF d.source = "good" THEN SourceText ELSE <<>>], <<>>)
  ELSE Result("open error", <<>>, <<>>)

\* readSourceMappingAndFileIdsFromFile: a file that cannot be read gives the
\* zero CompiledContract and no error.
readSourceMappingAndFileIdsFromFile(d) ==
  IF d.compiled = "none" THEN Result("nil", <<>>, <<>>)
  ELSE IF d.compiled = "empty" THEN Result("json error", <<>>, <<>>)
  ELSE IF d.compiled = "single"
    THEN Result("nil", [id \in {"0"} |-> "0xA.sol"], <<"0", ":", "1", ":", "0">>)
  ELSE Result("nil", [id \in {"0", "1"} |-> IF id = "0" THEN "A.sol" ELSE "B.sol"],
              <<"0", ":", "1", ":", "0">>)

\* Mutant of LookupFailed: the error of the explorer is returned.
LookupFailed_ReturnsError(fn) == Result("failed to get source code", <<>>, <<>>)

\* The placeholders returned when GetSourceCodeInfo fails.
LookupFailed(fn) ==
  IF fn = "GetSourceCode"
    THEN Result("nil", [f \in {"unverified.sol"} |-> PlaceholderSource], <<>>)
    ELSE Result("nil", [id \in {"0"} |-> "unverified.sol"], <<>>)

ReadBack(fn, d) ==
  IF fn = "GetSourceCode" THEN readSourceCodeFromFile(d)
  ELSE readSourceMappingAndFileIdsFromFile(d)

\* Either function from its first statement to its return:
\* [disk, solc, lookup, result].
Lookup(fn, d, lookup, save, compile) ==
  IF Cached(d)
    THEN [disk |-> d, solc |-> 0, lookup |-> "none", result |-> ReadBack(fn, d)]
  ELSE IF lookup = "error"
    THEN [disk |-> d, solc |-> 0, lookup |-> lookup, result |-> LookupFailed(fn)]
  ELSE IF save # "ok"
    THEN [disk |-> AfterSave(d, lookup, save), solc |-> 0, lookup |-> lookup,
          result |-> Result(save, <<>>, <<>>)]
  ELSE LET saved    == AfterSave(d, lookup, save)
           compiled == AfterCompile(saved, lookup, compile)
       IN  [disk |-> compiled, solc |-> 1, lookup |-> lookup,
            result |-> IF compile = "ok" THEN ReadBack(fn, compiled)
                       ELSE Result("compile error", <<>>, <<>>)]

CacheOthersOff == PcOff /\ SrcmapOff /\ BalanceOff /\ ExplorerOff /\ TraceOff /\ ReasonOff

CacheInit ==
  /\ ForkIdle
  /\ DebugOff
  /\ WalkOff
  /\ CacheOthersOff
  /\ disk = EmptyDisk
  /\ solcRuns = 0
  /\ sourceCalls = 0
  /\ lastCall = <<>>

CacheRest ==
  <<forkVars, debugVars, walkVars, pcVars, srcmapVars, balanceVars, explorerVars,
    traceVars, reasonVars>>

SourceCall(fn) ==
  /\ sourceCalls < MaxSourceCalls
  /\ \E lookup \in Lookups, save \in Saves, compile \in Compiles :
       LET call == Lookup(fn, disk, lookup, save, compile)
       IN  /\ disk' = call.disk
           /\ solcRuns' = solcRuns + call.solc
           /\ lastCall' = <<[fn |-> fn, lookup |-> call.lookup,
                             result |-> call.result]>>
  /\ sourceCalls' = sourceCalls + 1
  /\ UNCHANGED CacheRest

\* sourceCodes, err := s.GetSourceCode(address)
GetSourceCode == SourceCall("GetSourceCode")

\* compiledContract, err := s.GetSourceMappingAndFileNames(address)
GetSourceMappingAndFileNames == SourceCall("GetSourceMappingAndFileNames")

CacheNext ==
  \/ GetSourceCode
  \/ GetSourceMappingAndFileNames

CacheSpec == CacheInit /\ [][CacheNext]_vars

\* -------------------------------------------------- claims on CacheSpec

\* The step is a call for an address that is not cached whose explorer
\* lookup fails.
UncachedLookupFails ==
  /\ ~Cached(disk)
  /\ lastCall' # <<>>
  /\ sourceCalls' = sourceCalls + 1
  /\ lastCall'[1].lookup = "error"

\* C27: when the explorer lookup for an uncached address fails, GetSourceCode
\* returns the bundle {"unverified.sol": placeholder text} and
\* GetSourceMappingAndFileNames returns {srcmap "", sources {"0":
\* "unverified.sol"}}, without an error, without a compiler run and without
\* a write to the cache directories.
C27_UnverifiedFallback ==
  [][UncachedLookupFails =>
       /\ lastCall'[1].result.err = "nil"
       /\ lastCall'[1].result.srcmap = <<>>
       /\ IF lastCall'[1].fn = "GetSourceCode"
            THEN /\ DOMAIN lastCall'[1].result.files = {"unverified.sol"}
                 /\ lastCall'[1].result.files["unverified.sol"] = PlaceholderSource
            ELSE /\ DOMAIN lastCall'[1].result.files = {"0"}
                 /\ lastCall'[1].result.files["0"] = "unverified.sol"
       /\ solcRuns' = solcRuns
       /\ disk' = disk]_vars

\* Both functions have returned their placeholder for the uncached address.
C27_Witness ==
  /\ sourceCalls >= 2
  /\ ~Cached(disk)
  /\ disk = EmptyDisk
  /\ solcRuns = 0
  /\ lastCall # <<>>
  /\ lastCall[1].fn = "GetSourceMappingAndFileNames"
  /\ lastCall[1].lookup = "error"
  /\ lastCall[1].result.files = [id \in {"0"} |-> "unverified.sol"]

\* ================================================================ call trace
\* evm.Service.GetTransactionTrace with flattenCalls (controller.go), the
\* loop of debug.Service.GetContractsCalled over the flattened trace with
\* getMethodAndParams, and the contractMap DebugTransaction builds from it
\* and reads in its struct-log loop (debug/structs.go).

\* The trees of m nodes in all, as sequences of trees; a tree is the
\* sequence of its children.
RECURSIVE ForestsOf(_)
ForestsOf(m) ==
  IF m = 0 THEN {<<>>}
  ELSE UNION {{<<t>> \o f : t \in ForestsOf(k - 1), f \in ForestsOf(m - k)} :
                k \in 1..m}

\* The address of the node at a path (the child indices from the root): no
\* two nodes of a tree have the same.
RECURSIVE PathName(_)
PathName(path) ==
  IF path = <<>> THEN "0x"
  ELSE PathName(SubSeq(path, 1, Len(path) - 1)) \o ToString(path[Len(path)])

\* The call type of the node at a path.
TypeAt(path) ==
  IF path = <<>> THEN "CALL"
  ELSE IF path[Len(path)] = 1 THEN "STATICCALL" ELSE "DELEGATECALL"

\* The inputs of a call: none, shorter than a selector, a selector that is
\* not hex, and a selector.
Inputs ==
  {<<"0", "x">>,
   <<"0", "x", "a", "9">>,
   <<"0", "x", "z", "z", "z", "z", "z", "z", "z", "z">>,
   <<"0", "x", "a", "9", "0", "5", "9", "c", "b", "b">>}

\* The struct CallTrace of controller.go with the fields the debug service
\* reads; Depth is not in the JSON (tag "-") and unmarshals as 0.
RECURSIVE CallTreesAt(_, _)
RECURSIVE ChildTrees(_, _, _)
CallTreesAt(shape, path) ==
  {[To |-> PathName(path), Type |-> TypeAt(path), Input |-> input,
    Calls |-> subcalls, Depth |-> 0] :
     input \in Inputs, subcalls \in ChildTrees(shape, path, Len(shape))}

ChildTrees(shape, path, i) ==
  IF i = 0 THEN {<<>>}
  ELSE {Append(subcalls, subcall) :
          subcalls \in ChildTrees(shape, path, i - 1),
          subcall \in CallTreesAt(shape[i], Append(path, i))}

\* The results of the callTracer: every tree of at most MaxNodes calls.
CallTrees ==
  UNION {CallTreesAt(shape, <<>>) :
           shape \in UNION {ForestsOf(n - 1) : n \in 1..MaxNodes}}

\* Mutant of ChildDepth: the children get the depth of their parent.
ChildDepth_Same(depth) == depth

\* flattenCalls(call, result, depth+1)
ChildDepth(depth) == depth + 1

\* flattenCalls: the value of *result after the call.
RECURSIVE flattenCalls(_, _, _)
RECURSIVE FlattenEach(_, _, _, _)
flattenCalls(trace, result, depth) ==
  FlattenEach(trace.Calls, 1, Append(result, [trace EXCEPT !.Depth = depth]),
              ChildDepth(depth))

\* for _, call := range trace.Calls, from the i-th call on.
FlattenEach(subcalls, i, result, depth) ==
  IF i > Len(subcalls) THEN result
  ELSE FlattenEach(subcalls, i + 1, flattenCalls(subcalls[i], result, depth), depth)

\* How the ABI steps of getMethodAndParams go for a contract.
AbiOutcomes == {"fetch failed", "parse failed", "no method", "unpack failed", "ok"}

\* getMethodAndParams: "nil", or the error it returns.
getMethodAndParams(input, abi) ==
  IF input = <<"0", "x">> \/ Len(input) < 10
    THEN "input data too short or empty"
  ELSE IF abi = "fetch failed" THEN "failed to get ABI"
  ELSE IF abi = "parse failed" THEN "failed to parse ABI"
  ELSE IF Len(input) % 2 = 1 \/ \E i \in 3..Len(input) : ~IsHex(input[i])
    THEN "failed to decode input data"
  ELSE IF (Len(input) - 2) \div 2 < 4
    THEN "input data too short for method signature"
  ELSE IF abi = "no method" THEN "method not found in ABI"
  ELSE IF abi = "unpack failed" THEN "failed to unpack method parameters"
  ELSE "nil"

\* Mutant of UnknownCall: nothing is appended for a call that fails to decode.
UnknownCall_Dropped(list, trace) == list

\* The branch err != nil of the loop of GetContractsCalled.
UnknownCall(list, trace) ==
  Append(list, [ContractAddress |-> trace.To, CallType |-> trace.Type,
                FunctionSignature |-> "Unknown", Arguments |-> <<>>])

\* The end of the loop body for a decoded call.
DecodedCall(list, trace) ==
  Append(list, [ContractAddress |-> trace.To, CallType |-> trace.Type,
                FunctionSignature |-> "transfer(address,uint256)",
                Arguments |-> <<"to", "amount">>])

\* Mutant of ContractMapKey: the key is the depth of the trace entry.
ContractMapKey_Depth(traceEntry) == traceEntry.Depth

\* depth := traceEntry.Depth + 1
ContractMapKey(traceEntry) == traceEntry.Depth + 1

\* The ContractEntry values the loop can store for a trace entry.
ContractEntriesOf(traceEntry) ==
  {UnverifiedContract(traceEntry.To),
   VerifiedContract(traceEntry.To, <<FirstEntry>>)}

\* contract := contractMap[structLog.Depth]
LookupContract(map, depth) ==
  IF depth \in DOMAIN map THEN map[depth] ELSE ZeroContractEntry

\* The struct-logs looked up: calls nest at most MaxNodes deep.
TraceStructLogs == [Op : {"SLOAD", "RETURN"}, Pc : {0}, Depth : 1..(MaxNodes + 1)]

TraceOthersOff == PcOff /\ SrcmapOff /\ BalanceOff /\ ExplorerOff /\ CacheOff /\ ReasonOff

TraceInit ==
  /\ ForkIdle
  /\ DebugOff
  /\ WalkOff
  /\ TraceOthersOff
  /\ callTree \in CallTrees
  /\ traceUse \in {"GetContractsCalled", "DebugTransaction"}
  /\ tracePc = "flatten"
  /\ flatTraces = <<>>
  /\ traceIndex = 0
  /\ contractsCalled = <<>>
  /\ abiOutcomes = <<>>
  /\ depthMap = <<>>
  /\ lastUse = <<>>

TraceRest ==
  <<forkVars, debugVars, walkVars, pcVars, srcmapVars, balanceVars, explorerVars,
    cacheVars, reasonVars>>

\* var flatTraces []CallTrace; flattenCalls(rpcRes.Result, &flatTraces, 0)
GetTransactionTrace_Flatten ==
  /\ tracePc = "flatten"
  /\ flatTraces' = flattenCalls(callTree, <<>>, 0)
  /\ tracePc' = "loop"
  /\ UNCHANGED <<callTree, traceUse, traceIndex, contractsCalled, abiOutcomes,
                 depthMap, lastUse, TraceRest>>

\* One iteration of for _, trace := range traces in GetContractsCalled.
GetContractsCalled_Trace ==
  /\ tracePc = "loop"
  /\ traceUse = "GetContractsCalled"
  /\ traceIndex < Len(flatTraces)
  /\ \E abi \in AbiOutcomes :
       LET trace == flatTraces[traceIndex + 1]
           err   == getMethodAndParams(trace.Input, abi)
       IN  /\ contractsCalled' = IF err # "nil"
                                   THEN UnknownCall(contractsCalled, trace)
                                   ELSE DecodedCall(contractsCalled, trace)
           /\ abiOutcomes' = Append(abiOutcomes, err)
  /\ traceIndex' = traceIndex + 1
  /\ UNCHANGED <<callTree, traceUse, tracePc, flatTraces, depthMap, lastUse,
                 TraceRest>>

\* return contractsCalled, nil
GetContractsCalled_Return ==
  /\ tracePc = "loop"
  /\ traceUse = "GetContractsCalled"
  /\ traceIndex = Len(flatTraces)
  /\ tracePc' = "done"
  /\ UNCHANGED <<callTree, traceUse, flatTraces, traceIndex, contractsCalled,
                 abiOutcomes, depthMap, lastUse, TraceRest>>

\* One iteration of for i, traceEntry := range trace in DebugTransaction: an
\* error of GetContractBytecode, GetSourceCode or
\* GetSourceMappingAndFileNames ends the request, otherwise the entry is
\* stored under its key.
DebugTransaction_ContractEntry ==
  /\ tracePc = "loop"
  /\ traceUse = "DebugTransaction"
  /\ traceIndex < Len(flatTraces)
  /\ \/ /\ tracePc' = "aborted"
        /\ UNCHANGED <<traceIndex, depthMap>>
     \/ \E entry \in ContractEntriesOf(flatTraces[traceIndex + 1]) :
          LET depth == ContractMapKey(flatTraces[traceIndex + 1])
          IN  /\ depthMap' = [d \in DOMAIN depthMap \cup {depth} |->
                                IF d = depth THEN entry ELSE depthMap[d]]
              /\ traceIndex' = traceIndex + 1
              /\ tracePc' = IF traceIndex + 1 = Len(flatTraces)
                              THEN "lookup" ELSE "loop"
  /\ UNCHANGED <<callTree, traceUse, flatTraces, contractsCalled, abiOutcomes,
                 lastUse, TraceRest>>

\* One iteration of the struct-log loop: the lookup of the contract and what
\* the loop body does with it.
DebugTransaction_Lookup ==
  /\ tracePc = "lookup"
  /\ \E structLog \in TraceStructLogs :
       LET contract == LookupContract(depthMap, structLog.Depth)
       IN  lastUse' = <<[structLog |-> structLog, contract |-> contract,
                         step |-> LoopBody(structLog, contract, <<>>)]>>
  /\ tracePc' = "done"
  /\ UNCHANGED <<callTree, traceUse, flatTraces, traceIndex, contractsCalled,
                 abiOutcomes, depthMap, TraceRest>>

TraceNext ==
  \/ GetTransactionTrace_Flatten
  \/ GetContractsCalled_Trace
  \/ GetContractsCalled_Return
  \/ DebugTransaction_ContractEntry
  \/ DebugTransaction_Lookup

TraceSpec == TraceInit /\ [][TraceNext]_vars

\* --------------------------------------------------- claims on TraceSpec

\* The paths of the nodes of a call tree.
RECURSIVE PathsFrom(_, _)
PathsFrom(trace, path) ==
  {path} \cup UNION {PathsFrom(trace.Calls[i], Append(path, i)) :
                       i \in 1..Len(trace.Calls)}

TreePaths == PathsFrom(callTree, <<>>)

\* The node of the call tree at a path.
RECURSIVE NodeFrom(_, _)
NodeFrom(trace, path) ==
  IF path = <<>> THEN trace ELSE NodeFrom(trace.Calls[Head(path)], Tail(path))

IsProperPrefix(p, q) == Len(p) < Len(q) /\ SubSeq(q, 1, Len(p)) = p

\* p comes before q in pre-order: p is an ancestor of q, or p is in the
\* subtree of an earlier sibling of an ancestor of q (or of q).
PreOrderBefore(p, q) ==
  \/ IsProperPrefix(p, q)
  \/ \E i \in 1..Len(p) :
       /\ i <= Len(q)
       /\ SubSeq(p, 1, i - 1) = SubSeq(q, 1, i - 1)
       /\ p[i] < q[i]

\* The position of a node in the pre-order listing of the tree.
PreOrderRank(p) == 1 + Cardinality({q \in TreePaths : PreOrderBefore(q, p)})

PathAtRank(k) == CHOOSE p \in TreePaths : PreOrderRank(p) = k

Flattened == tracePc # "flatten"

\* C29: the flattened trace has one element per node of the tree, a parent
\* before all its descendants, the subtrees of siblings in their order, the
\* root at depth 0 and every other node one deeper than its parent.
C29_FlattenIsPreOrder ==
  Flattened =>
    /\ Len(flatTraces) = Cardinality(TreePaths)
    /\ \A p \in TreePaths :
         \E k \in 1..Len(flatTraces) :
           /\ flatTraces[k].To = NodeFrom(callTree, p).To
           /\ flatTraces[k].Type = NodeFrom(callTree, p).Type
           /\ flatTraces[k].Input = NodeFrom(callTree, p).Input
           /\ flatTraces[k].Depth = Len(p)
           /\ \A q \in TreePaths : \A j \in 1..Len(flatTraces) :
                (flatTraces[j].To = NodeFrom(callTree, q).To
                   /\ PreOrderBefore(p, q)) => k < j

\* A tree of three calls with two siblings under the root has been flattened.
C29_Witness ==
  /\ Flattened
  /\ Len(flatTraces) = 3
  /\ Len(callTree.Calls) = 2
  /\ flatTraces[3].Depth = 1

FailsToDecode(k) ==
  \/ flatTraces[k].Input = <<"0", "x">>
  \/ Len(flatTraces[k].Input) < 10
  \/ abiOutcomes[k] # "nil"

\* C28: the list has one ContractCalled per node of the call tree, in
\* pre-order, with the node's address and call type; a node whose input is
\* "0x" or shorter than 10 characters or whose ABI decoding fails has the
\* signature "Unknown" and no arguments, and the nodes after it are still
\* listed.
C28_OneContractCalledPerNode ==
  (Flattened /\ traceUse = "GetContractsCalled") =>
    /\ Len(contractsCalled) = traceIndex
    /\ tracePc = "done" => Len(contractsCalled) = Cardinality(TreePaths)
    /\ \A k \in 1..Len(contractsCalled) :
         /\ contractsCalled[k].ContractAddress = NodeFrom(callTree, PathAtRank(k)).To
         /\ contractsCalled[k].CallType = NodeFrom(callTree, PathAtRank(k)).Type
         /\ FailsToDecode(k) =>
              /\ contractsCalled[k].FunctionSignature = "Unknown"
              /\ contractsCalled[k].Arguments = <<>>

\* The list of a tree of three calls is complete; its first call failed to
\* decode and its last one was decoded.
C28_Witness ==
  /\ traceUse = "GetContractsCalled"
  /\ tracePc = "done"
  /\ Len(contractsCalled) = 3
  /\ abiOutcomes[1] = "method not found in ABI"
  /\ contractsCalled[1].FunctionSignature = "Unknown"
  /\ abiOutcomes[3] = "nil"
  /\ contractsCalled[3].FunctionSignature # "Unknown"

\* The nodes of the tree at a depth.
PathsAtDepth(d) == {p \in TreePaths : Len(p) = d}

\* The last node in pre-order at a depth.
LastAtDepth(d) ==
  CHOOSE p \in PathsAtDepth(d) :
    \A q \in PathsAtDepth(d) : q = p \/ PreOrderBefore(q, p)

\* C30: the contract used for a struct-log at depth d is the last node in
\* pre-order whose depth is d-1; if the tree has no node at that depth the
\* contract is the empty one and the struct-log gives a degraded entry (line
\* -1, file "unknown") if its opcode is in the target set and nothing
\* otherwise.
C30_DepthKeyedContract ==
  lastUse # <<>> =>
    LET d == lastUse[1].structLog.Depth
    IN  IF PathsAtDepth(d - 1) # {}
          THEN lastUse[1].contract.address = NodeFrom(callTree, LastAtDepth(d - 1)).To
          ELSE /\ lastUse[1].contract = ZeroContractEntry
               /\ IF lastUse[1].structLog.Op \in TargetSet
                    THEN /\ lastUse[1].step.kind = "emit"
                         /\ lastUse[1].step.entry.LineNumber = 0 - 1
                         /\ lastUse[1].step.entry.File = "unknown"
                    ELSE lastUse[1].step.kind = "skip"

\* Two calls at the same depth: the struct-log of that depth got the
\* contract of the second one.
C30_Witness ==
  /\ lastUse # <<>>
  /\ Len(callTree.Calls) = 2
  /\ lastUse[1].structLog.Depth = 2
  /\ lastUse[1].contract.address = callTree.Calls[2].To

\* A struct-log deeper than every call was looked up.
C30_WitnessNoNode ==
  /\ lastUse # <<>>
  /\ PathsAtDepth(lastUse[1].structLog.Depth - 1) = {}
  /\ lastUse[1].step.kind = "emit"

\* =====================================================================
\* Fork manager, port pool under reuse.  The same program as Spec, cut off
\* after one more client call: three create_fork calls and the delete_fork
\* of the first fork fit in a run.

MaxPoolCalls == 4    \* client calls over a run of PoolSpec

PoolInit ==
  /\ HelpersOff
  /\ ForkStart
  /\ callBudget = MaxPoolCalls
  /\ DebugOff
  /\ WalkOff

PoolSpec == PoolInit /\ [][Next]_vars

\* Successful create_fork calls whose fork no delete_fork has released yet.
NotYetDeleted ==
  {k \in Creators :
     /\ cr[k].result = "ok"
     /\ ~\E d \in Deleters : dl[d].forkId = cr[k].forkId /\ dl[d].result = "ok"}

\* C34: create_fork calls never obtain the same port.  The forks returned by
\* successful create_fork calls that have not been deleted yet hold pairwise
\* distinct ports, and there are never more of them than ports in the pool.
C34_DistinctPorts ==
  /\ \A k \in NotYetDeleted : \A j \in NotYetDeleted :
       k # j => cr[k].port # cr[j].port
  /\ Cardinality(NotYetDeleted) <= NumPorts

\* =====================================================================
\* Fork manager, further claims (specification Spec).

\* C35: an RPC body submitted with fork id F is delivered only to the child
\* process that was spawned for F; it is never POSTed to the process of a
\* different fork, whatever delete_fork(F) and a later create_fork that
\* reuses F's port do meanwhile.
C35_RpcReachesOwnFork ==
  \A r \in RpcCalls :
    rpc[r].sentTo # NoCmd => cr[rpc[r].sentTo].forkId = rpc[r].forkId

\* Fork F of create_fork k was deleted by a DELETE request.
ExplicitlyDeleted(k) ==
  \E d \in Deleters : ~IsLease(d) /\ dl[d].forkId = cr[k].forkId /\ dl[d].result = "ok"

\* The creators whose reserve has completed on the port create_fork k held
\* and whose fork id the row of that port carries now.
Successors(k) ==
  IF cr[k].port = NoPort THEN {}
  ELSE {j \in Creators \ {k} :
          /\ cr[j].port = cr[k].port
          /\ cr[j].pc \in {"start", "rel_find", "rel_upd1", "rel_upd2", "done"}
          /\ rows[cr[k].port].forkId = cr[j].forkId}

WellFormed(bytecode) ==
  InstructionCovering(bytecode, ByteCount(bytecode), 0, 0).index = -1

\* The program counter is the first byte of an instruction.
AtInstructionStart ==
  LET c == InstructionCovering(pcBytecode, pcTarget, 0, 0)
  IN  c.index >= 0 /\ c.start = pcTarget

\* C38: on a well-formed bytecode the lookup of a program counter that is
\* the first byte of an instruction, the last instruction included, returns
\* the number of instructions that precede it (a PUSHn taking n + 1 bytes,
\* any other opcode one byte), and the lookup of a program counter at or
\* beyond the end of the bytecode fails (PCNotFound).
C38_InstructionStartIndex ==
  (PcCalled /\ WellFormed(pcBytecode)) =>
    /\ AtInstructionStart =>
         /\ ~pcResult[1].err
         /\ pcResult[1].n = InstructionCovering(pcBytecode, pcTarget, 0, 0).index
    /\ pcTarget >= ByteCount(pcBytecode) => pcResult[1].err

\* C38 witness: the lookup of the last instruction of 0x6080604052, which
\* follows two PUSH1, has returned 2.
C38_Witness ==
  /\ PcCalled
  /\ pcBytecode = E6Bytecode
  /\ pcTarget = 4
  /\ AtInstructionStart
  /\ pcResult[1] = [err |-> FALSE, n |-> 2]

\* C38, second witness: a lookup at the end of a non-empty well-formed
\* bytecode has failed.
C38_WitnessBeyondEnd ==
  /\ PcCalled
  /\ WellFormed(pcBytecode)
  /\ ByteCount(pcBytecode) > 0
  /\ pcTarget = ByteCount(pcBytecode)
  /\ pcResult[1].err

\* =====================================================================
\* Source cache, further claims (specification CacheSpec).

\* C37: the source cache and the compiled-record cache stay consistent.  A
\* call of GetSourceMappingAndFileNames that finds a source file cached for
\* the address returns the compiled record of the address (its source map
\* and its file-id map) or an error, never an empty record as a success,
\* also when an earlier request saved the source and failed to compile it.
C37_CachedSourceHasRecord ==
  (/\ lastCall # <<>>
   /\ lastCall[1].fn = "GetSourceMappingAndFileNames"
   /\ lastCall[1].lookup = "none")
    => \/ lastCall[1].result.err # "nil"
       \/ /\ lastCall[1].result.srcmap # <<>>
          /\ lastCall[1].result.files # <<>>

\* =====================================================================
\* Balance override, further claims (specification BalanceSpec).

NotFoundMessage == "Mapping slot for given address not found!"

\* C32: no storage write of a non-matching probe persists.  When
\* SetERC20Balance returns the mapping-slot-not-found error it has made
\* exactly 100 probes and the storage of the token is what it was before the
\* call; when it returns success the one slot that differs from the storage
\* before the call is the slot of the probe whose read-back matched.
C32_OnlyMatchingWritePersists ==
  ercPc = "done" =>
    /\ ercResult = NotFoundMessage =>
         /\ slotNumber = ProbeLimit
         /\ written = <<>>
    /\ ercResult = "nil" =>
         /\ written # <<>>
         /\ written = balanceSlot
         /\ currBalance = Target

\* =====================================================================
\* Revert reason: evm.Service.GetTransactionErrorMessage (cmd/fork_service/
\* controller.go) and the message DebugTransaction derives from it
\* (debug/structs.go).  Strings the code measures or compares are sequences
\* of one-character strings.

MaxReceiptLogs == 2

\* len(log.Data) > 138
MinDataChars == 138

\* keccak256("Error(string)") as the code spells it.
ErrorTopic == "0x08c379a0afcc32b1a39302f7cb8073359698411ab5fd6e3edb2c02c0b5fba8aa"

TransferTopic == "0xddf252ad1be2c89b69c2b068fc378daa952ba7f163c4a11628f55a4df523b3ef"

TransactionSuccessful ==
  <<"T", "r", "a", "n", "s", "a", "c", "t", "i", "o", "n", " ", "s",
    "u", "c", "c", "e", "s", "s", "f", "u", "l", "!">>

TransactionFailed ==
  <<"T", "r", "a", "n", "s", "a", "c", "t", "i", "o", "n", " ", "F",
    "a", "i", "l", "e", "d">>

\* A hex string "0x" followed by n digits, all the given digit.
HexData(n, digit) == <<"0", "x">> \o [i \in 1..n |-> digit]

\* log.Data of the receipts: empty, "0x", the text of the success message,
\* a field of exactly 138 characters, one character more, and the encoding
\* of a one-word reason (194 characters).
DataCatalogue ==
  {<<>>, HexData(0, "0"), TransactionSuccessful, HexData(136, "0"),
   HexData(137, "1"), HexData(192, "2")}

\* log.Topics of the receipts.
TopicsCatalogue ==
  {<<>>, <<ErrorTopic>>, <<TransferTopic>>, <<TransferTopic, ErrorTopic>>}

ReceiptLog(topics, data) == [Topics |-> topics, Data |-> data]

ReceiptLogs == {ReceiptLog(t, d) : t \in TopicsCatalogue, d \in DataCatalogue}

\* Result.Status: "" is the zero value left by a null receipt.
Statuses == {"0x1", "0x0", ""}

\* What eth_getTransactionReceipt gives: a failed request, or a receipt.
Receipts ==
  {[failed |-> TRUE, Status |-> "", Logs |-> <<>>]}
    \cup {[failed |-> FALSE, Status |-> st, Logs |-> logs] :
            st \in Statuses,
            logs \in UNION {[1..n -> ReceiptLogs] : n \in 0..MaxReceiptLogs}}

\* Mutant of DataLongEnough: the length of the data is not tested.
DataLongEnough_Always(data) == TRUE

\* len(log.Data) > 138
DataLongEnough(data) == Len(data) > MinDataChars

\* The test on a log inside the range loop.
IsRevertLog(log) ==
  /\ Len(log.Topics) > 0
  /\ log.Topics[1] = ErrorTopic
  /\ DataLongEnough(log.Data)

\* The range loop over receiptRes.Result.Logs from index i on.
RECURSIVE ScanLogs(_, _)
ScanLogs(logs, i) ==
  IF i > Len(logs) THEN TransactionFailed
  ELSE IF IsRevertLog(logs[i]) THEN logs[i].Data
  ELSE ScanLogs(logs, i + 1)

\* GetTransactionErrorMessage: [err, reason].
GetTransactionErrorMessage(rcpt) ==
  IF rcpt.failed THEN [err |-> TRUE, reason |-> <<>>]
  ELSE IF rcpt.Status = "0x1" THEN [err |-> FALSE, reason |-> <<>>]
  ELSE [err |-> FALSE, reason |-> ScanLogs(rcpt.Logs, 1)]

\* if revertReason == "0x" || revertReason == "" { ... } else { ... }
ErrorMessageOf(reason) ==
  IF reason = <<"0", "x">> \/ reason = <<>>
    THEN TransactionSuccessful ELSE reason

ReasonOthersOff ==
  PcOff /\ SrcmapOff /\ BalanceOff /\ ExplorerOff /\ CacheOff /\ TraceOff

ReasonInit ==
  /\ ForkIdle
  /\ DebugOff
  /\ WalkOff
  /\ ReasonOthersOff
  /\ receipt \in {<<r>> : r \in Receipts}
  /\ reasonPc = "receipt"
  /\ revertReason = <<>>
  /\ errorMessage = <<>>

ReasonRest ==
  <<forkVars, debugVars, walkVars, pcVars, srcmapVars, balanceVars, explorerVars,
    cacheVars, traceVars>>

\* revertReason, err := s.evmService.GetTransactionErrorMessage(forkId, txHash);
\* on an error DebugTransaction returns it.
DebugTransaction_RevertReason ==
  /\ reasonPc = "receipt"
  /\ LET r == GetTransactionErrorMessage(receipt[1])
     IN  IF r.err
           THEN reasonPc' = "failed" /\ UNCHANGED revertReason
           ELSE reasonPc' = "message" /\ revertReason' = <<r.reason>>
  /\ UNCHANGED <<receipt, errorMessage, ReasonRest>>

\* The errorMessage DebugTransaction goes on with.
DebugTransaction_ErrorMessage ==
  /\ reasonPc = "message"
  /\ errorMessage' = <<ErrorMessageOf(revertReason[1])>>
  /\ reasonPc' = "done"
  /\ UNCHANGED <<receipt, revertReason, ReasonRest>>

ReasonNext ==
  \/ DebugTransaction_RevertReason
  \/ DebugTransaction_ErrorMessage

ReasonSpec == ReasonInit /\ [][ReasonNext]_vars

\* ------------------------------------------------- claims on ReasonSpec

\* The logs of the receipt that carry the Error(string) topic first.
ErrorLogs ==
  {i \in DOMAIN receipt[1].Logs :
     /\ Len(receipt[1].Logs[i].Topics) > 0
     /\ receipt[1].Logs[i].Topics[1] = ErrorTopic}

\* Among them, the ones whose data is longer than 138 characters.
LongErrorLogs == {i \in ErrorLogs : Len(receipt[1].Logs[i].Data) > MinDataChars}

First(S) == CHOOSE i \in S : \A j \in S : i <= j

Reported == reasonPc = "done"

SimulateRequests ==
  {r \in 1..reqs : \E i \in DOMAIN sent :
     sent[i].req = r /\ sent[i].by = "SimulateRawTransaction"}

\* The steps of request r up to step i in which fn created a fork.
CreatedBy(r, fn, i) ==
  {j \in 1..i : /\ sent[j].req = r /\ sent[j].by = fn
                /\ sent[j].kind = "create_fork" /\ sent[j].fork # NoFork}

SimulateFns == {"SimulateRawTransaction", "GetContractsCalled", "DebugTransaction"}

\* The forks request r created up to step i for which no DeleteFork of the
\* request has returned by then.
HeldAfter(r, i) ==
  {sent[j].fork : j \in
     {c \in UNION {CreatedBy(r, fn, i) : fn \in SimulateFns} :
        ~\E k \in (c + 1)..i :
           sent[k].kind = "delete_fork" /\ sent[k].fork = sent[c].fork}}

\* C39: simulate_raw_tx holds at most two of its own forks at any moment,
\* the primary fork and one helper fork: the helper of the contracts-called
\* extraction has been deleted when the helper of the debug step is created.
\* When simulate_raw_tx returns success it has created three forks and has
\* deleted every one of them.
C39_AtMostTwoForks ==
  /\ \A r \in SimulateRequests : \A i \in DOMAIN sent :
       /\ Cardinality(HeldAfter(r, i)) <= 2
       /\ i \in CreatedBy(r, "DebugTransaction", i)
            => \A c \in CreatedBy(r, "GetContractsCalled", i) :
                 sent[c].fork \notin HeldAfter(r, i)
  /\ \A a \in DOMAIN answered :
       (answered[a].fn = "SimulateRawTransaction" /\ answered[a].result = "ok")
         => /\ HeldAfter(answered[a].req, Len(sent)) = {}
            /\ \A fn \in SimulateFns :
                 Cardinality(CreatedBy(answered[a].req, fn, Len(sent))) = 1

\* C39 witness: a simulate_raw_tx has returned success.
C39_Witness ==
  \E a \in DOMAIN answered :
    /\ answered[a].fn = "SimulateRawTransaction"
    /\ answered[a].result = "ok"
    /\ \E i \in DOMAIN sent :
         sent[i].req = answered[a].req /\ Cardinality(HeldAfter(answered[a].req, i)) = 2

\* What C39 takes from the fork manager (it holds of Spec and of PoolSpec):
\* when a DeleteFork execution returns, with or without an error, the fork
\* it was called for is not active; only a panic leaves it otherwise.
DeleteForkLeavesInactive ==
  [][\A d \in Deleters :
       (dl[d].pc # "done" /\ dl'[d].pc = "done" /\ dl'[d].result # "panic")
         => FindPortStatusByForkId(rows', dl'[d].forkId) # "active"]_vars

\* =====================================================================
\* Fork manager under fair scheduling (specification LeaseSpec).  The debug
\* service takes its forks with forkService.CreateFork(1) and gives them back
\* with forkService.DeleteFork: to the fork manager a fork of the debug
\* service is a create_fork call, the cleanup of the request a delete_fork
\* call that may or may not come, and the lease goroutine the same one.
\* Every goroutine that can take a step takes it eventually; no request has
\* to arrive, and a sleeping lease goroutine wakes up.

\* The steps of CreateFork execution k after its arrival.
CreateSteps(k) ==
  \/ FindInactivePort(k)
  \/ Reserve_StoreActive(k)
  \/ Reserve_StoreForkId(k)
  \/ StartAnvilProcess(k)
  \/ CreateRelease_Find(k)
  \/ CreateRelease_StoreActive(k)
  \/ CreateRelease_StoreForkId(k)

\* The steps of DeleteFork execution d: all of them for a lease goroutine,
\* the ones after the arrival for a request.
DeleteSteps(d) ==
  \/ IsLease(d) /\ DeleteFork_GetPort(d)
  \/ DeleteFork_IsPortActive(d)
  \/ StopAnvilProcess_Kill(d)
  \/ StopAnvilProcess_Delete(d)
  \/ DeleteRelease_Find(d)
  \/ DeleteRelease_StoreActive(d)
  \/ DeleteRelease_StoreForkId(d)

LeaseFairness ==
  /\ \A k \in Creators : WF_vars(CreateSteps(k))
  /\ \A d \in Deleters : WF_vars(DeleteSteps(d))

LeaseSpec == Spec /\ LeaseFairness

\* C33: every fork a request of the debug service created is eventually
\* inactive, whether the request deleted it or left it to its lease timer,
\* so that the port it took is free for another fork again.
C33_ForkEventuallyInactive ==
  \A k \in Creators :
    (cr[k].result = "ok")
      ~> (FindPortStatusByForkId(rows, cr[k].forkId) # "active")

\* What the code gives: the fork is eventually inactive, or the service has
\* died of a panic in a lease goroutine or of a concurrent map access.
C33_InactiveUnlessCrashed ==
  \A k \in Creators :
    (cr[k].result = "ok")
      ~> (FindPortStatusByForkId(rows, cr[k].forkId) # "active" \/ crashed)

====
